---------------------------- MODULE Spec2Model ----------------------------
(***************************************************************************)
(* A model of the wsclip client (apps/client/src/wsclip): the reconnection *)
(* strategy, the wire-message codec, the clipboard service (echo gate and  *)
(* poller), the WebSocket service (session) and the sync manager.          *)
(*                                                                         *)
(* Delays are counted in whole units of the initial delay's resolution;    *)
(* doubling and min are exact on them as they are on the floats the code   *)
(* uses.                                                                   *)
(***************************************************************************)
EXTENDS Integers, Sequences, FiniteSets, TLC

VARIABLES
    \* ---- ReconnectionStrategy (core/connection.py)
    initial_delay,      \* self.initial_delay
    max_delay,          \* self.max_delay
    max_attempts,       \* self.max_attempts
    attempt_count,      \* self._attempt_count
    current_delay,      \* self._current_delay
    nd_ret,             \* what the last get_next_delay() returned (NoCall before any)
    nd_calls,           \* get_next_delay() calls since construction or the last reset()
    nd_total,           \* get_next_delay() calls since construction
    resets,             \* reset() calls since construction
    cwr_pc,             \* position of connect_with_retry
    cwr_attempts,       \* connect_fn invocations of the current/last connect_with_retry
    cwr_slept,          \* the delays it slept, in order
    cwr_outcomes,       \* how many connect_fn invocations ended in each outcome
    cwr_result,         \* what the last connect_with_retry returned
    \* ---- message codec (models/messages.py)
    codec_pc,           \* "message": a message to encode; "wire": a dict to decode; "decoded"
    codec_msg,          \* the message that was encoded (NoMessage when a payload came from the wire)
    codec_wire,         \* the dict on the wire (NoDict before encoding)
    codec_out,          \* what dict_to_message gave: a message or DecodeError
    \* ---- ClipboardService (services/clipboard.py) and the system clipboard
    max_size_bytes,     \* self.max_size_bytes
    clipboard,          \* the text on the system clipboard (what pyperclip.paste() reads)
    last_content,       \* self._last_content: PyNone or PySome(text)
    last_received,      \* self._last_received: PyNone or PySome(text)
    monitoring,         \* self._monitoring
    monitor_task,       \* self._monitor_task: "none", or "running" while the loop's task lives
    gate_hist,          \* the latest direct calls of set / should_ignore_change made with one text, with what they returned
    gate_changed,       \* what the latest round of the monitor loop handed to on_change (PyNone: nothing)
    \* ---- WebSocketService (services/websocket.py) and its connections
    websocket,          \* self.websocket: NoConn or the number of a connection
    conns,              \* the connections opened so far, each "open" or "closed"
    authenticated,      \* self.authenticated
    paired_peer,        \* self.paired_peer: PyNone or PySome(id)
    session_id,         \* self.session_id: PyNone or PySome(id)
    message_handlers,   \* self._message_handlers: message type -> handler
    running,            \* self._running
    heartbeat_task,     \* self._heartbeat_task: "none", "sleeping" (the task lives) or "done"
    connect_pc,         \* position of connect(): "idle", "opening", "auth_wait"
    connect_conn,       \* the connection connect() awaits the reply on
    recv_pc,            \* position of receive_loop(): "idle", "recv", "finally", "finally_raise"
    recv_conn,          \* the connection _receive_message() awaits a frame on
    disc_pc,            \* position of disconnect(): "idle", "await_hb", "closing"
    disc_conn,          \* the connection disconnect() is closing
    written,            \* the frames the latest step wrote to a connection
    sess_event,         \* what the latest step completed: a call that returned, a dispatch
    \* ---- SyncManager (core/sync_manager.py) under the start command (cli/commands.py)
    mode,               \* config.clipboard.sync_mode
    reconnect_enabled,  \* config.connection.reconnect.enabled
    start_pc,           \* position of start(): "idle", "connecting", "connected", "hotkey_setup",
                        \* "syncing", "not_connected" (returned for want of a
                        \* connection), "returned", "raised"
    auto_task,          \* the task of start_monitoring() that _start_auto_mode creates:
                        \* "none", "pending", "done", "cancelled"
    hotkey,             \* the HotkeyService: "none", "listening", "stopped"
    stop_pc,            \* position of stop(): "idle", "running", "returned"
    clip_origin,        \* who put the text on the system clipboard: "user" or "peer"
    sent_log,           \* where a run keeps them, the calls of the trigger's callback:
                        \* <<the text it was given or read, the frames it wrote>>
    \* ---- the legacy WebSocketClient (src/wsclip/core/websocket_client.py) under main.py
    maintain_pc,        \* position of run_client() and maintain_connection(): "idle",
                        \* "connected", "top" (the while test), "connecting", "listening",
                        \* "returned", "disconnected"
    \* ---- two clients in Auto mode on one relay session, each peer p with its
    \* ---- ClipboardService (services/clipboard.py)
    pair_clipboard,     \* [p]: the text on the system clipboard of p
    pair_last_content,  \* [p]: self._last_content
    pair_last_received, \* [p]: self._last_received
    pair_inbox,         \* [p]: the contents of the clipboard_text frames relayed to p
                        \* that its receive loop has not read yet
    pair_copied,        \* the one copy a user made: <<p, text>>, or None
    pair_frames,        \* how many clipboard_text frames the peers have written
    pair_set_failed     \* a set() of a received text failed (pyperclip raised)

policyVars == <<initial_delay, max_delay, max_attempts, attempt_count, current_delay,
                nd_ret, nd_calls, nd_total, resets,
                cwr_pc, cwr_attempts, cwr_slept, cwr_outcomes, cwr_result>>

codecVars == <<codec_pc, codec_msg, codec_wire, codec_out>>

gateFields == <<max_size_bytes, clipboard, last_content, last_received,
                monitoring, monitor_task>>

gateVars == <<gateFields, gate_hist, gate_changed>>

sessionVars == <<websocket, conns, authenticated, paired_peer, session_id,
                 message_handlers, running, heartbeat_task,
                 connect_pc, connect_conn, recv_pc, recv_conn, disc_pc, disc_conn,
                 written, sess_event>>

engineVars == <<mode, reconnect_enabled, start_pc, auto_task, hotkey, stop_pc, clip_origin,
                sent_log>>

legacyVars == <<maintain_pc>>

pairVars == <<pair_clipboard, pair_last_content, pair_last_received, pair_inbox,
              pair_copied, pair_frames, pair_set_failed>>

vars == <<policyVars, codecVars, gateVars, sessionVars, engineVars, legacyVars, pairVars>>

\* what the actions of one component leave alone
notPolicy == <<codecVars, gateVars, sessionVars, engineVars, legacyVars, pairVars>>
notCodec == <<policyVars, gateVars, sessionVars, engineVars, legacyVars, pairVars>>
notGate == <<policyVars, codecVars, sessionVars, engineVars, legacyVars, pairVars>>
notSession == <<policyVars, codecVars, gateVars, engineVars, legacyVars, pairVars>>

-----------------------------------------------------------------------------
(* Bounds of the model *)

\* max_attempts is drawn from 0..MaxAttemptsBound
MaxAttemptsBound == 7
\* direct get_next_delay() calls are made while fewer than MaxCalls were made
MaxCalls == 8
\* reset() and connect_with_retry() are called while fewer than MaxResets resets were made
MaxResets == 2
\* connections are opened while fewer than MaxConns were opened
MaxConns == 2
\* config.connection.reconnect.max_attempts of a run is drawn from 0..MaxRetries
MaxRetries == 1

\* the hotkey presses a run in Manual mode keeps
MaxPresses == 2

(* Program constants *)

RECONNECT_INITIAL_DELAY == 1
RECONNECT_MAX_DELAY == 30

-----------------------------------------------------------------------------
(* Helpers *)

Min(a, b) == IF a <= b THEN a ELSE b

RECURSIVE Pow2(_)
Pow2(n) == IF n <= 0 THEN 1 ELSE 2 * Pow2(n - 1)

\* the value get_next_delay() returns when the attempts are used up
Exhausted == -1

\* nd_ret before any get_next_delay() call: no value the method returns
NoCall == Exhausted - 1

-----------------------------------------------------------------------------
(* ReconnectionStrategy *)

\* the delays a strategy is constructed with: the defaults and smaller caps
InitialDelays == {RECONNECT_INITIAL_DELAY, 3}
MaxDelays == {3, 5, RECONNECT_MAX_DELAY}

\* how a connect_fn() invocation can end: it returns True, returns False, or raises
ConnectOutcomes == {"true", "false", "raise"}

NoOutcomes == [o \in ConnectOutcomes |-> 0]

PolicyInit ==
    /\ initial_delay \in InitialDelays
    /\ max_delay \in {d \in MaxDelays : initial_delay <= d}
    /\ max_attempts \in 0..MaxAttemptsBound
    /\ attempt_count = 0
    /\ current_delay = initial_delay
    /\ nd_ret = NoCall
    /\ nd_calls = 0
    /\ nd_total = 0
    /\ resets = 0
    /\ cwr_pc = "idle"
    /\ cwr_attempts = 0
    /\ cwr_slept = <<>>
    /\ cwr_outcomes = NoOutcomes
    /\ cwr_result = "none"

\* the strategy SyncManager._connect_with_retry constructs when no run is modelled
PolicyIdle ==
    /\ initial_delay = RECONNECT_INITIAL_DELAY
    /\ max_delay = RECONNECT_MAX_DELAY
    /\ max_attempts = 0
    /\ attempt_count = 0
    /\ current_delay = initial_delay
    /\ nd_ret = NoCall
    /\ nd_calls = 0
    /\ nd_total = 0
    /\ resets = 0
    /\ cwr_pc = "idle"
    /\ cwr_attempts = 0
    /\ cwr_slept = <<>>
    /\ cwr_outcomes = NoOutcomes
    /\ cwr_result = "none"

\* reset(): the strategy's state after it
reset_keeps_delay == [attempt_count |-> 0, current_delay |-> current_delay]

reset == [attempt_count |-> 0, current_delay |-> initial_delay]

\* get_next_delay() on a strategy with the given counters: what it returns and
\* the counters it leaves
get_next_delay_returns_doubled(ac, cd) ==
    IF ac >= max_attempts
    THEN [ret |-> Exhausted, attempt_count |-> ac, current_delay |-> cd]
    ELSE [ret |-> Min(cd * 2, max_delay),
          attempt_count |-> ac + 1,
          current_delay |-> Min(cd * 2, max_delay)]

get_next_delay_doubles_when_exhausted(ac, cd) ==
    IF ac >= max_attempts
    THEN [ret |-> Exhausted, attempt_count |-> ac,
          current_delay |-> Min(cd * 2, max_delay)]
    ELSE [ret |-> cd,
          attempt_count |-> ac + 1,
          current_delay |-> Min(cd * 2, max_delay)]

get_next_delay_uncapped(ac, cd) ==
    IF ac >= max_attempts
    THEN [ret |-> Exhausted, attempt_count |-> ac, current_delay |-> cd]
    ELSE [ret |-> cd,
          attempt_count |-> ac + 1,
          current_delay |-> cd * 2]

get_next_delay_off_by_one(ac, cd) ==
    IF ac + 1 >= max_attempts
    THEN [ret |-> Exhausted, attempt_count |-> ac, current_delay |-> cd]
    ELSE [ret |-> cd,
          attempt_count |-> ac + 1,
          current_delay |-> Min(cd * 2, max_delay)]

get_next_delay(ac, cd) ==
    IF ac >= max_attempts
    THEN [ret |-> Exhausted, attempt_count |-> ac, current_delay |-> cd]
    ELSE [ret |-> cd,
          attempt_count |-> ac + 1,
          current_delay |-> Min(cd * 2, max_delay)]

\* a caller calls reset()
PolicyReset ==
    /\ UNCHANGED notPolicy
    /\ cwr_pc = "idle"
    /\ resets < MaxResets
    /\ attempt_count' = reset.attempt_count
    /\ current_delay' = reset.current_delay
    /\ nd_calls' = 0
    /\ resets' = resets + 1
    /\ UNCHANGED <<initial_delay, max_delay, max_attempts, nd_ret, nd_total,
                   cwr_pc, cwr_attempts, cwr_slept, cwr_outcomes, cwr_result>>

\* a caller calls get_next_delay()
PolicyGetNextDelay ==
    /\ UNCHANGED notPolicy
    /\ cwr_pc = "idle"
    /\ nd_total < MaxCalls
    /\ LET r == get_next_delay(attempt_count, current_delay) IN
        /\ attempt_count' = r.attempt_count
        /\ current_delay' = r.current_delay
        /\ nd_ret' = r.ret
    /\ nd_calls' = nd_calls + 1
    /\ nd_total' = nd_total + 1
    /\ UNCHANGED <<initial_delay, max_delay, max_attempts, resets,
                   cwr_pc, cwr_attempts, cwr_slept, cwr_outcomes, cwr_result>>

\* connect_with_retry(connect_fn) is called: reset(), then the loop is entered
CwrCall ==
    /\ cwr_pc = "idle"
    /\ attempt_count' = reset.attempt_count
    /\ current_delay' = reset.current_delay
    /\ nd_calls' = 0
    /\ resets' = resets + 1
    /\ cwr_pc' = "attempt"
    /\ cwr_attempts' = 0
    /\ cwr_slept' = <<>>
    /\ cwr_outcomes' = NoOutcomes
    /\ cwr_result' = "none"
    /\ UNCHANGED <<initial_delay, max_delay, max_attempts, nd_ret, nd_total>>

\* the loop invokes connect_fn() and awaits it
CwrInvoke ==
    /\ cwr_pc = "attempt"
    /\ cwr_pc' = "awaiting"
    /\ cwr_attempts' = cwr_attempts + 1
    /\ UNCHANGED <<initial_delay, max_delay, max_attempts, attempt_count, current_delay,
                   nd_ret, nd_calls, nd_total, resets, cwr_slept, cwr_outcomes, cwr_result>>

CwrOutcome_no_reset_on_success(outcome) ==
    /\ cwr_pc = "awaiting"
    /\ cwr_outcomes' = [cwr_outcomes EXCEPT ![outcome] = @ + 1]
    /\ IF outcome = "true"
       THEN /\ cwr_result' = "true"
            /\ cwr_pc' = "done"
            /\ UNCHANGED <<attempt_count, current_delay, nd_calls, resets,
                           nd_ret, nd_total, cwr_slept>>
       ELSE LET r == get_next_delay(attempt_count, current_delay) IN
            /\ attempt_count' = r.attempt_count
            /\ current_delay' = r.current_delay
            /\ nd_ret' = r.ret
            /\ nd_calls' = nd_calls + 1
            /\ nd_total' = nd_total + 1
            /\ UNCHANGED resets
            /\ IF r.ret < 0
               THEN /\ cwr_result' = "false"
                    /\ cwr_pc' = "done"
                    /\ UNCHANGED cwr_slept
               ELSE /\ cwr_pc' = "sleep"
                    /\ cwr_slept' = Append(cwr_slept, r.ret)
                    /\ UNCHANGED cwr_result
    /\ UNCHANGED <<initial_delay, max_delay, max_attempts, cwr_attempts>>

CwrOutcome_propagates(outcome) ==
    /\ cwr_pc = "awaiting"
    /\ cwr_outcomes' = [cwr_outcomes EXCEPT ![outcome] = @ + 1]
    /\ cwr_result' = IF outcome = "true" THEN "true" ELSE "raise"
    /\ cwr_pc' = "done"
    /\ UNCHANGED <<initial_delay, max_delay, max_attempts, attempt_count, current_delay,
                   nd_ret, nd_calls, nd_total, resets, cwr_attempts, cwr_slept>>

\* connect_fn() ends: it returned True ("true"), returned False ("false") or raised
\* an Exception ("raise"). On success reset() and return True; otherwise
\* get_next_delay(), and return False when it is negative, else sleep.
CwrOutcome(outcome) ==
    /\ cwr_pc = "awaiting"
    /\ cwr_outcomes' = [cwr_outcomes EXCEPT ![outcome] = @ + 1]
    /\ IF outcome = "true"
       THEN /\ attempt_count' = reset.attempt_count
            /\ current_delay' = reset.current_delay
            /\ nd_calls' = 0
            /\ resets' = resets + 1
            /\ cwr_result' = "true"
            /\ cwr_pc' = "done"
            /\ UNCHANGED <<nd_ret, nd_total, cwr_slept>>
       ELSE LET r == get_next_delay(attempt_count, current_delay) IN
            /\ attempt_count' = r.attempt_count
            /\ current_delay' = r.current_delay
            /\ nd_ret' = r.ret
            /\ nd_calls' = nd_calls + 1
            /\ nd_total' = nd_total + 1
            /\ UNCHANGED resets
            /\ IF r.ret < 0
               THEN /\ cwr_result' = "false"
                    /\ cwr_pc' = "done"
                    /\ UNCHANGED cwr_slept
               ELSE /\ cwr_pc' = "sleep"
                    /\ cwr_slept' = Append(cwr_slept, r.ret)
                    /\ UNCHANGED cwr_result
    /\ UNCHANGED <<initial_delay, max_delay, max_attempts, cwr_attempts>>

\* asyncio.sleep(delay) is over: the loop goes round
CwrWake ==
    /\ cwr_pc = "sleep"
    /\ cwr_pc' = "attempt"
    /\ UNCHANGED <<initial_delay, max_delay, max_attempts, attempt_count, current_delay,
                   nd_ret, nd_calls, nd_total, resets,
                   cwr_attempts, cwr_slept, cwr_outcomes, cwr_result>>

\* connect_with_retry has returned to its caller
CwrReturn ==
    /\ cwr_pc = "done"
    /\ cwr_pc' = "idle"
    /\ UNCHANGED <<initial_delay, max_delay, max_attempts, attempt_count, current_delay,
                   nd_ret, nd_calls, nd_total, resets,
                   cwr_attempts, cwr_slept, cwr_outcomes, cwr_result>>

\* the strategy on its own: a caller's calls, and connect_fn() ending as it may
PolicyConnectWithRetry == resets < MaxResets /\ CwrCall /\ UNCHANGED notPolicy

PolicyCwrInvoke == CwrInvoke /\ UNCHANGED notPolicy

PolicyCwrOutcome(outcome) == CwrOutcome(outcome) /\ UNCHANGED notPolicy

PolicyCwrWake == CwrWake /\ UNCHANGED notPolicy

PolicyCwrReturn == CwrReturn /\ UNCHANGED notPolicy

PolicyNext ==
    \/ PolicyReset
    \/ PolicyGetNextDelay
    \/ PolicyConnectWithRetry
    \/ PolicyCwrInvoke
    \/ \E o \in ConnectOutcomes : PolicyCwrOutcome(o)
    \/ PolicyCwrWake
    \/ PolicyCwrReturn

-----------------------------------------------------------------------------
(* Message codec: models/messages.py                                        *)
(*                                                                          *)
(* A message in memory is a record of its dataclass fields. A str field is  *)
(* a string, a bool field a BOOLEAN, an enum field the enum's value, and an *)
(* Optional[str] field is PyNone or PySome(s). A dict (what asdict gives    *)
(* and json.loads returns) is a function from the keys present to JSON      *)
(* values: JStr(s), JBool(b) or JNull. Values that may meet in one set are  *)
(* tuples led by their kind.                                                *)

PyNone == <<"None">>
PySome(s) == <<"str", s>>

JNull == <<"null">>
JStr(s) == <<"str", s>>
JBool(b) == <<"bool", b>>

\* MessageType
AUTH == "auth"
AUTH_RESPONSE == "auth_response"
TEXT_MESSAGE == "text_message"
CLIPBOARD_TEXT == "clipboard_text"
PEER_CONNECTED == "peer_connected"
PEER_DISCONNECTED == "peer_disconnected"
HEARTBEAT == "heartbeat"
ERROR == "error"

MessageType == {AUTH, AUTH_RESPONSE, TEXT_MESSAGE, CLIPBOARD_TEXT,
                PEER_CONNECTED, PEER_DISCONNECTED, HEARTBEAT, ERROR}

\* ErrorCode
ErrorCode == {"TOKEN_INVALID", "PEER_LIMIT", "ALREADY_CONNECTED", "INTERNAL_ERROR"}

\* ClipboardSyncMode
AUTO == "auto"
MANUAL == "manual"
ClipboardSyncMode == {AUTO, MANUAL}

\* dict_to_message raising ValueError
DecodeError == [raised |-> "ValueError"]

NoMessage == [none |-> "message"]
NoDict == [none |-> "dict"]

\* json.dumps of a field value: an Optional[str] field
JsonOfOptional(o) == IF o = PyNone THEN JNull ELSE JStr(o[2])

\* message_to_dict(message): asdict, with the key from_peer renamed to "from"
message_to_dict(m) ==
    CASE m.type = AUTH ->
            [type |-> JStr(m.type), timestamp |-> JStr(m.timestamp),
             token |-> JStr(m.token), peer_id |-> JStr(m.peer_id)]
      [] m.type = AUTH_RESPONSE ->
            [type |-> JStr(m.type), timestamp |-> JStr(m.timestamp),
             success |-> JBool(m.success),
             session_id |-> JsonOfOptional(m.session_id),
             paired_peer |-> JsonOfOptional(m.paired_peer),
             error |-> JsonOfOptional(m.error)]
      [] m.type = TEXT_MESSAGE ->
            [type |-> JStr(m.type), timestamp |-> JStr(m.timestamp),
             from |-> JStr(m.from_peer), content |-> JStr(m.content),
             message_id |-> JStr(m.message_id)]
      [] m.type = CLIPBOARD_TEXT ->
            [type |-> JStr(m.type), timestamp |-> JStr(m.timestamp),
             from |-> JStr(m.from_peer), content |-> JStr(m.content),
             message_id |-> JStr(m.message_id), source |-> JStr(m.source)]
      [] m.type \in {PEER_CONNECTED, PEER_DISCONNECTED, HEARTBEAT} ->
            [type |-> JStr(m.type), timestamp |-> JStr(m.timestamp),
             peer_id |-> JStr(m.peer_id)]
      [] m.type = ERROR ->
            [type |-> JStr(m.type), timestamp |-> JStr(m.timestamp),
             code |-> JStr(m.code), message |-> JStr(m.message)]

\* data.get(key, default)
DictGet(data, key, default) == IF key \in DOMAIN data THEN data[key] ELSE default

\* str(value) of a JSON value
PyStr(j) ==
    CASE j[1] = "str" -> j[2]
      [] j[1] = "null" -> "None"
      [] j[1] = "bool" -> IF j[2] THEN "True" ELSE "False"

\* bool(value) of a JSON value
Truthy(j) ==
    CASE j[1] = "str" -> j[2] # ""
      [] j[1] = "null" -> FALSE
      [] j[1] = "bool" -> j[2]

\* str(data.get(key, ""))
StrField(data, key) == PyStr(DictGet(data, key, JStr("")))

\* str(data[key]) if data.get(key) else None
OptionalField(data, key) ==
    IF Truthy(DictGet(data, key, JNull)) THEN PySome(PyStr(data[key])) ELSE PyNone

\* the else branch of dict_to_message: raise ValueError("Unknown message type")
unknown_type_default_variant(data) ==
    [type |-> TEXT_MESSAGE, timestamp |-> StrField(data, "timestamp"),
     from_peer |-> StrField(data, "from"), content |-> StrField(data, "content"),
     message_id |-> StrField(data, "message_id")]

unknown_type(data) == DecodeError

\* dict_to_message(data)
dict_to_message(data) ==
    LET message_type == DictGet(data, "type", JNull)
        timestamp == StrField(data, "timestamp")
    IN CASE message_type = JStr(AUTH) ->
            [type |-> AUTH, timestamp |-> timestamp,
             token |-> StrField(data, "token"), peer_id |-> StrField(data, "peer_id")]
         [] message_type = JStr(AUTH_RESPONSE) ->
            [type |-> AUTH_RESPONSE, timestamp |-> timestamp,
             success |-> Truthy(DictGet(data, "success", JBool(FALSE))),
             session_id |-> OptionalField(data, "session_id"),
             paired_peer |-> OptionalField(data, "paired_peer"),
             error |-> OptionalField(data, "error")]
         [] message_type = JStr(TEXT_MESSAGE) ->
            [type |-> TEXT_MESSAGE, timestamp |-> timestamp,
             from_peer |-> StrField(data, "from"), content |-> StrField(data, "content"),
             message_id |-> StrField(data, "message_id")]
         [] message_type = JStr(CLIPBOARD_TEXT) ->
            [type |-> CLIPBOARD_TEXT, timestamp |-> timestamp,
             from_peer |-> StrField(data, "from"), content |-> StrField(data, "content"),
             message_id |-> StrField(data, "message_id"),
             source |-> IF DictGet(data, "source", JStr(MANUAL)) = JStr(MANUAL)
                        THEN MANUAL ELSE AUTO]
         [] message_type \in {JStr(PEER_CONNECTED), JStr(PEER_DISCONNECTED)} ->
            [type |-> IF message_type = JStr(PEER_CONNECTED)
                      THEN PEER_CONNECTED ELSE PEER_DISCONNECTED,
             timestamp |-> timestamp, peer_id |-> StrField(data, "peer_id")]
         [] message_type = JStr(HEARTBEAT) ->
            [type |-> HEARTBEAT, timestamp |-> timestamp,
             peer_id |-> StrField(data, "peer_id")]
         [] message_type = JStr(ERROR) ->
            [type |-> ERROR, timestamp |-> timestamp,
             code |-> LET code_value == DictGet(data, "code", JStr("INTERNAL_ERROR"))
                      IN IF code_value \in {JStr("TOKEN_INVALID"), JStr("PEER_LIMIT"),
                                            JStr("ALREADY_CONNECTED")}
                         THEN code_value[2] ELSE "INTERNAL_ERROR",
             message |-> StrField(data, "message")]
         [] OTHER -> unknown_type(data)

\* the field values the constructible messages are built from
FieldStrings == {"", "a"}
OptionalStrings == {PyNone, PySome(""), PySome("a")}
Timestamps == {"2025-01-01T00:00:00+00:00"}

\* every message the dataclasses construct over these field values
Messages ==
    [type : {AUTH}, timestamp : Timestamps, token : FieldStrings, peer_id : FieldStrings]
    \cup [type : {AUTH_RESPONSE}, timestamp : Timestamps, success : BOOLEAN,
          session_id : OptionalStrings, paired_peer : OptionalStrings,
          error : OptionalStrings]
    \cup [type : {TEXT_MESSAGE}, timestamp : Timestamps, from_peer : FieldStrings,
          content : FieldStrings, message_id : FieldStrings]
    \cup [type : {CLIPBOARD_TEXT}, timestamp : Timestamps, from_peer : FieldStrings,
          content : FieldStrings, message_id : FieldStrings, source : ClipboardSyncMode]
    \cup [type : {PEER_CONNECTED, PEER_DISCONNECTED, HEARTBEAT}, timestamp : Timestamps,
          peer_id : FieldStrings]
    \cup [type : {ERROR}, timestamp : Timestamps, code : ErrorCode, message : FieldStrings]

\* dicts as a relay may send them: a type tag that is a known tag, an unknown
\* string, null or absent, with the other keys absent, null, or holding a value
WireTags == {JStr(t) : t \in MessageType} \cup {JStr("bogus"), JStr(""), JNull, JBool(TRUE)}

WireFields(fill) ==
    CASE fill = "absent" -> [timestamp |-> JStr("t")]
      [] fill = "null" ->
            [timestamp |-> JNull, token |-> JNull, peer_id |-> JNull, success |-> JNull,
             session_id |-> JNull, paired_peer |-> JNull, error |-> JNull,
             from |-> JNull, content |-> JNull, message_id |-> JNull,
             source |-> JNull, code |-> JNull, message |-> JNull]
      [] fill = "values" ->
            [timestamp |-> JStr("t"), token |-> JStr("a"), peer_id |-> JStr("a"),
             success |-> JBool(TRUE), session_id |-> JStr("a"),
             paired_peer |-> JStr("a"), error |-> JStr(""),
             from |-> JStr("a"), content |-> JStr("a"), message_id |-> JStr("a"),
             source |-> JStr(AUTO), code |-> JStr("PEER_LIMIT"), message |-> JStr("a")]

WireFills == {"absent", "null", "values"}

WireDicts ==
    {WireFields(f) : f \in WireFills}
    \cup {[type |-> t] @@ WireFields(f) : t \in WireTags, f \in WireFills}

CodecInit ==
    \/ /\ codec_pc = "message"
       /\ codec_msg \in Messages
       /\ codec_wire = NoDict
       /\ codec_out = NoMessage
    \/ /\ codec_pc = "wire"
       /\ codec_msg = NoMessage
       /\ codec_wire \in WireDicts
       /\ codec_out = NoMessage

\* the sender turns the message into a dict (message_to_dict) and json.dumps writes it
Encode ==
    /\ UNCHANGED notCodec
    /\ codec_pc = "message"
    /\ codec_wire' = message_to_dict(codec_msg)
    /\ codec_pc' = "wire"
    /\ UNCHANGED <<codec_msg, codec_out>>

\* the receiver json.loads the dict and hands it to dict_to_message
Decode ==
    /\ UNCHANGED notCodec
    /\ codec_pc = "wire"
    /\ codec_out' = dict_to_message(codec_wire)
    /\ codec_pc' = "decoded"
    /\ UNCHANGED <<codec_msg, codec_wire>>

\* no message in hand: the codec at rest
CodecIdle ==
    /\ codec_pc = "idle"
    /\ codec_msg = NoMessage
    /\ codec_wire = NoDict
    /\ codec_out = NoMessage

CodecNext ==
    \/ Encode
    \/ Decode

-----------------------------------------------------------------------------
(* Clipboard texts                                                          *)
(*                                                                          *)
(* A text is a sequence of runs <<code point, count>>: count copies of one  *)
(* character. Two texts are equal exactly when their run sequences are (no  *)
(* text below has two adjacent runs of one character or an empty run).      *)

Run(cp, n) == <<<<cp, n>>>>

EmptyText == <<>>

\* the bytes str.encode("utf-8") gives one character
Utf8Width(cp) ==
    IF cp < 128 THEN 1 ELSE IF cp < 2048 THEN 2 ELSE IF cp < 65536 THEN 3 ELSE 4

\* len(text.encode("utf-8"))
RECURSIVE Utf8Len(_)
Utf8Len(text) ==
    IF text = <<>> THEN 0
    ELSE Head(text)[2] * Utf8Width(Head(text)[1]) + Utf8Len(Tail(text))

\* len(text)
RECURSIVE CharLen(_)
CharLen(text) ==
    IF text = <<>> THEN 0 ELSE Head(text)[2] + CharLen(Tail(text))

MAX_MESSAGE_SIZE == 1048576

\* the texts a user copies and a peer sends: the empty text, short ones, one of
\* exactly MAX_MESSAGE_SIZE bytes, and one of two-byte characters that has fewer
\* characters than MAX_MESSAGE_SIZE and more bytes
TextA == Run(97, 1)
TextB == Run(98, 1)
TextAtLimit == Run(97, MAX_MESSAGE_SIZE)
TextWideOverLimit == Run(233, (MAX_MESSAGE_SIZE \div 2) + 1)

Texts == {EmptyText, TextA, TextB, TextAtLimit, TextWideOverLimit}

-----------------------------------------------------------------------------
(* ClipboardService: services/clipboard.py *)

\* config.clipboard.max_size_mb is drawn from 1..MaxSizeMb
MaxSizeMb == 2
\* the direct calls gate_hist remembers: set, should_ignore_change, should_ignore_change
HistLen == 1 + 2

GateInit ==
    /\ max_size_bytes \in {mb * 1024 * 1024 : mb \in 1..MaxSizeMb}
    /\ clipboard \in {EmptyText, TextA}
    /\ last_content = PyNone
    /\ last_received = PyNone
    /\ monitoring = FALSE
    /\ monitor_task = "none"
    /\ gate_hist = <<>>
    /\ gate_changed = PyNone

\* get(): pyperclip.paste() read the clipboard (ok) or raised; "content if content else None"
get(ok) == IF ok /\ clipboard # EmptyText THEN PySome(clipboard) ELSE PyNone

\* should_ignore_change(content): what it returns and the _last_received it leaves
should_ignore_change_keeps_marker(content) ==
    IF last_received # PyNone /\ last_received[2] # EmptyText /\ content = last_received[2]
    THEN [ret |-> TRUE, last_received |-> last_received]
    ELSE IF Utf8Len(content) > max_size_bytes
    THEN [ret |-> TRUE, last_received |-> last_received]
    ELSE [ret |-> (PySome(content) = last_content), last_received |-> last_received]

should_ignore_change_no_size_gate(content) ==
    IF last_received # PyNone /\ last_received[2] # EmptyText /\ content = last_received[2]
    THEN [ret |-> TRUE, last_received |-> PyNone]
    ELSE [ret |-> (PySome(content) = last_content), last_received |-> last_received]

should_ignore_change(content) ==
    IF last_received # PyNone /\ last_received[2] # EmptyText /\ content = last_received[2]
    THEN [ret |-> TRUE, last_received |-> PyNone]
    ELSE IF Utf8Len(content) > max_size_bytes
    THEN [ret |-> TRUE, last_received |-> last_received]
    ELSE [ret |-> (PySome(content) = last_content), last_received |-> last_received]

\* gate_hist after a direct call: the run of latest calls made with one text
Remember(hist, call) ==
    LET same == IF hist # <<>> /\ hist[1].arg = call.arg THEN hist ELSE <<>>
        h == Append(same, call)
    IN IF Len(h) > HistLen THEN Tail(h) ELSE h

ClipboardSet_records_on_failure(text, ok) ==
    /\ clipboard' = IF ok THEN text ELSE clipboard
    /\ last_received' = PySome(text)
    /\ UNCHANGED <<max_size_bytes, last_content, monitoring, monitor_task>>

\* a caller calls set(text); pyperclip.copy wrote it (ok) or raised
ClipboardSet(text, ok) ==
    /\ IF ok
       THEN /\ clipboard' = text
            /\ last_received' = PySome(text)
       ELSE UNCHANGED <<clipboard, last_received>>
    /\ UNCHANGED <<max_size_bytes, last_content, monitoring, monitor_task>>

\* a caller calls should_ignore_change(content)
ShouldIgnore(content) ==
    /\ last_received' = should_ignore_change(content).last_received
    /\ UNCHANGED <<max_size_bytes, clipboard, last_content, monitoring, monitor_task>>

\* the user copies a text: the system clipboard changes under the service
UserCopy(text) ==
    /\ text # clipboard
    /\ clipboard' = text
    /\ UNCHANGED <<max_size_bytes, last_content, last_received, monitoring, monitor_task>>

\* start_monitoring(on_change): returns at once when already monitoring, else
\* takes the baseline and creates the task of _monitor_loop
StartMonitoring(ok) ==
    IF monitoring
    THEN UNCHANGED <<max_size_bytes, clipboard, last_content, last_received,
                     monitoring, monitor_task>>
    ELSE /\ monitoring' = TRUE
         /\ last_content' = get(ok)
         /\ monitor_task' = "running"
         /\ UNCHANGED <<max_size_bytes, clipboard, last_received>>

\* stop_monitoring(): clears the flag, cancels the loop's task and awaits it
StopMonitoring ==
    /\ monitoring' = FALSE
    /\ monitor_task' = "none"
    /\ UNCHANGED <<max_size_bytes, clipboard, last_content, last_received>>

Accepted_every_round(ok) == IF monitoring THEN get(ok) ELSE PyNone

\* what one round of _monitor_loop hands to on_change: the text read when it is
\* not empty and should_ignore_change does not ignore it, else nothing
Accepted(ok) ==
    LET current == get(ok) IN
    IF monitoring /\ current # PyNone /\ ~should_ignore_change(current[2]).ret
    THEN current
    ELSE PyNone

MonitorIteration_keeps_baseline(ok) ==
    /\ monitor_task = "running"
    /\ IF monitoring /\ get(ok) # PyNone
       THEN last_received' = should_ignore_change(get(ok)[2]).last_received
       ELSE UNCHANGED last_received
    /\ monitor_task' = IF monitoring THEN "running" ELSE "done"
    /\ UNCHANGED <<max_size_bytes, clipboard, monitoring, last_content>>

\* one round of _monitor_loop up to its sleep: read the clipboard, and when the
\* text is not empty and not to be ignored make it the baseline and await
\* on_change(text); what on_change does is the caller's part of the step
MonitorIteration(ok) ==
    /\ monitor_task = "running"
    /\ IF monitoring
       THEN LET current == get(ok) IN
            IF current = PyNone
            THEN UNCHANGED <<last_received, last_content>>
            ELSE LET r == should_ignore_change(current[2]) IN
                 /\ last_received' = r.last_received
                 /\ last_content' = IF r.ret THEN last_content ELSE current
       ELSE \* the while condition fails: the loop and its task end
            UNCHANGED <<last_received, last_content>>
    /\ monitor_task' = IF monitoring THEN "running" ELSE "done"
    /\ UNCHANGED <<max_size_bytes, clipboard, monitoring>>

\* a step that is no direct call of set / should_ignore_change and no round of
\* the monitor loop
NoGateRecord == gate_hist' = <<>> /\ gate_changed' = PyNone

\* the calls and events of the service on its own, with a record of the
\* direct calls and of what the monitor loop hands to on_change
GateSetCall(text, ok) ==
    /\ ClipboardSet(text, ok)
    /\ gate_hist' = Remember(gate_hist, [op |-> "set", arg |-> text, ret |-> ok])
    /\ gate_changed' = PyNone
    /\ UNCHANGED notGate

GateShouldIgnoreCall(content) ==
    /\ ShouldIgnore(content)
    /\ gate_hist' = Remember(gate_hist, [op |-> "ignore", arg |-> content,
                                         ret |-> should_ignore_change(content).ret])
    /\ gate_changed' = PyNone
    /\ UNCHANGED notGate

GateUserCopy(text) == UserCopy(text) /\ NoGateRecord /\ UNCHANGED notGate

GateStartMonitoring(ok) == StartMonitoring(ok) /\ NoGateRecord /\ UNCHANGED notGate

GateStopMonitoring == StopMonitoring /\ NoGateRecord /\ UNCHANGED notGate

GatePoll(ok) ==
    /\ MonitorIteration(ok)
    /\ gate_hist' = <<>>
    /\ gate_changed' = Accepted(ok)
    /\ UNCHANGED notGate

GateNext ==
    \/ \E t \in Texts, ok \in BOOLEAN : GateSetCall(t, ok)
    \/ \E t \in Texts : GateShouldIgnoreCall(t)
    \/ \E t \in Texts : GateUserCopy(t)
    \/ \E ok \in BOOLEAN : GateStartMonitoring(ok)
    \/ GateStopMonitoring
    \/ \E ok \in BOOLEAN : GatePoll(ok)

\* a service constructed and left alone
GateIdle ==
    /\ max_size_bytes = 1024 * 1024
    /\ clipboard = EmptyText
    /\ last_content = PyNone
    /\ last_received = PyNone
    /\ monitoring = FALSE
    /\ monitor_task = "none"
    /\ gate_hist = <<>>
    /\ gate_changed = PyNone

-----------------------------------------------------------------------------
(* WebSocketService: services/websocket.py                                  *)
(*                                                                          *)
(* Each method is a coroutine; a step runs it from one suspension point to  *)
(* the next. The steps below change the service's fields only: an action of *)
(* a specification adds what the rest of the program does in the step.      *)

\* self.websocket = None
NoConn == 0

\* config.connection: peer_id and token; what the relay calls the session and the peer
PeerId == "p1"
Token == "tok"
RelaySession == "s1"
RelayPeer == "p2"

\* datetime.now(UTC).isoformat() and str(uuid.uuid4()) at construction of a message
Now == "2025-01-01T00:00:00+00:00"
Uuid == "uuid"

\* a text frame: JSON of a dict, or text json.loads cannot parse
Json(d) == <<"json", d>>
NotJson == <<"notjson">>

AuthMessage == [type |-> AUTH, timestamp |-> Now, token |-> Token, peer_id |-> PeerId]

HeartbeatMessage == [type |-> HEARTBEAT, timestamp |-> Now, peer_id |-> PeerId]

ClipboardTextMessage(from_peer, content, source) ==
    [type |-> CLIPBOARD_TEXT, timestamp |-> Now, from_peer |-> from_peer,
     content |-> content, message_id |-> Uuid, source |-> source]

AuthResponseMessage(success, session, paired, error) ==
    [type |-> AUTH_RESPONSE, timestamp |-> Now, success |-> success,
     session_id |-> session, paired_peer |-> paired, error |-> error]

PeerEventMessage(type, peer) == [type |-> type, timestamp |-> Now, peer_id |-> peer]

\* the frames the relay sends: each message variant as the relay encodes it, an
\* AuthResponse whose optional fields are empty strings, a dict with a tag the
\* client does not know, and a frame that is not JSON
RelayMessages ==
    {AuthResponseMessage(TRUE, PySome(RelaySession), PyNone, PyNone),
     AuthResponseMessage(TRUE, PySome(RelaySession), PySome(RelayPeer), PyNone),
     AuthResponseMessage(TRUE, PySome(""), PySome(""), PyNone),
     AuthResponseMessage(FALSE, PyNone, PyNone, PySome("TOKEN_INVALID")),
     PeerEventMessage(PEER_CONNECTED, RelayPeer),
     PeerEventMessage(PEER_DISCONNECTED, RelayPeer),
     [type |-> HEARTBEAT, timestamp |-> Now, peer_id |-> RelayPeer],
     [type |-> ERROR, timestamp |-> Now, code |-> "PEER_LIMIT", message |-> "full"],
     [type |-> TEXT_MESSAGE, timestamp |-> Now, from_peer |-> RelayPeer,
      content |-> TextA, message_id |-> Uuid]}
    \cup {ClipboardTextMessage(RelayPeer, t, AUTO) : t \in {TextA, TextB}}

UnknownTagDict == [type |-> JStr("ping"), timestamp |-> JStr(Now)]

RelayFrames == {Json(message_to_dict(m)) : m \in RelayMessages} \cup {Json(UnknownTagDict), NotJson}

\* _receive_message() once websocket.recv() gave the frame raw: the message,
\* None when json.loads raised JSONDecodeError, or the ValueError of
\* dict_to_message, which it does not catch
receive_message(raw) ==
    IF raw[1] = "notjson" THEN PyNone
    ELSE LET m == dict_to_message(raw[2]) IN
         IF m = DecodeError THEN <<"raise", "ValueError">> ELSE <<"message", m>>

NoEvent == <<"none">>

\* a call that returned (ret: "True", "False", "None") or raised (ret: the exception)
Returned(op, ret, why) == <<op, ret, why>>

\* WebSocketService.__init__
SessionIdle ==
    /\ websocket = NoConn
    /\ conns = <<>>
    /\ authenticated = FALSE
    /\ paired_peer = PyNone
    /\ session_id = PyNone
    /\ message_handlers = {}
    /\ running = FALSE
    /\ heartbeat_task = "none"
    /\ connect_pc = "idle"
    /\ connect_conn = NoConn
    /\ recv_pc = "idle"
    /\ recv_conn = NoConn
    /\ disc_pc = "idle"
    /\ disc_conn = NoConn
    /\ written = <<>>
    /\ sess_event = NoEvent

\* a connection a method holds is open
Open(c) == c # NoConn /\ conns[c] = "open"

\* ---- connect()

\* connect() is called; urlparse finds a hostname in worker_url or does not
Connect(valid_url) ==
    /\ connect_pc = "idle"
    /\ IF valid_url
       THEN /\ connect_pc' = "opening"
            /\ sess_event' = NoEvent
       ELSE /\ connect_pc' = "idle"
            /\ sess_event' = Returned("connect", "False", <<"invalid_url">>)
    /\ written' = <<>>
    /\ UNCHANGED <<websocket, conns, authenticated, paired_peer, session_id,
                   message_handlers, running, heartbeat_task, connect_conn,
                   recv_pc, recv_conn, disc_pc, disc_conn>>

\* the proxy tunnel or the WebSocket handshake fails: return False
ConnectOpenFailed ==
    /\ connect_pc = "opening"
    /\ connect_pc' = "idle"
    /\ sess_event' = Returned("connect", "False", <<"open_failed">>)
    /\ written' = <<>>
    /\ UNCHANGED <<websocket, conns, authenticated, paired_peer, session_id,
                   message_handlers, running, heartbeat_task, connect_conn,
                   recv_pc, recv_conn, disc_pc, disc_conn>>

\* the handshake completes: self.websocket is the new connection, and the
\* AuthMessage is sent on it (sent) or the send raises because the connection
\* is already closed
ConnectOpened(sent) ==
    /\ connect_pc = "opening"
    /\ Len(conns) < MaxConns
    /\ websocket' = Len(conns) + 1
    /\ conns' = Append(conns, IF sent THEN "open" ELSE "closed")
    /\ IF sent
       THEN /\ written' = <<Json(message_to_dict(AuthMessage))>>
            /\ connect_pc' = "auth_wait"
            /\ connect_conn' = Len(conns) + 1
            /\ sess_event' = NoEvent
       ELSE /\ written' = <<>>
            /\ connect_pc' = "idle"
            /\ UNCHANGED connect_conn
            /\ sess_event' = Returned("connect", "False", <<"send_failed">>)
    /\ UNCHANGED <<authenticated, paired_peer, session_id, message_handlers,
                   running, heartbeat_task, recv_pc, recv_conn, disc_pc, disc_conn>>

\* isinstance(response, AuthResponseMessage) and response.success
auth_accepted_any_response(response) ==
    response[1] = "message" /\ response[2].type = AUTH_RESPONSE

auth_accepted(response) ==
    response[1] = "message" /\ response[2].type = AUTH_RESPONSE /\ response[2].success

\* the one frame connect() awaits arrives
ConnectReply(raw) ==
    /\ connect_pc = "auth_wait"
    /\ Open(connect_conn)
    /\ LET response == receive_message(raw) IN
       IF auth_accepted(response)
       THEN /\ authenticated' = TRUE
            /\ session_id' = response[2].session_id
            /\ paired_peer' = response[2].paired_peer
            /\ sess_event' = Returned("connect", "True", <<"reply", raw>>)
       ELSE /\ UNCHANGED <<authenticated, session_id, paired_peer>>
            /\ sess_event' = Returned("connect", "False", <<"reply", raw>>)
    /\ connect_pc' = "idle"
    /\ written' = <<>>
    /\ UNCHANGED <<websocket, conns, message_handlers, running, heartbeat_task,
                   connect_conn, recv_pc, recv_conn, disc_pc, disc_conn>>

\* the connection closes before a reply: recv() raises ConnectionClosed
ConnectClosed ==
    /\ connect_pc = "auth_wait"
    /\ ~Open(connect_conn)
    /\ connect_pc' = "idle"
    /\ sess_event' = Returned("connect", "False", <<"closed">>)
    /\ written' = <<>>
    /\ UNCHANGED <<websocket, conns, authenticated, paired_peer, session_id,
                   message_handlers, running, heartbeat_task, connect_conn,
                   recv_pc, recv_conn, disc_pc, disc_conn>>

\* the task running connect() is cancelled at one of its awaits: CancelledError
\* is not an Exception and leaves connect()
ConnectCancelled ==
    /\ connect_pc \in {"opening", "auth_wait"}
    /\ connect_pc' = "idle"
    /\ sess_event' = Returned("connect", "CancelledError", <<"cancelled">>)
    /\ written' = <<>>
    /\ UNCHANGED <<websocket, conns, authenticated, paired_peer, session_id,
                   message_handlers, running, heartbeat_task, connect_conn,
                   recv_pc, recv_conn, disc_pc, disc_conn>>

\* ---- receive_loop() and _handle_message()

\* message.type in self._message_handlers
HasHandler(type) == \E h \in message_handlers : h[1] = type

\* self._message_handlers[type]
RegisteredHandler(type) == (CHOOSE h \in message_handlers : h[1] = type)[2]

\* a handler that raises an Exception when it is awaited
HandlerRaising == "handler_raising"

default_paired_peer_keeps_on_disconnect(message) ==
    CASE message.type = PEER_CONNECTED -> PySome(message.peer_id)
      [] OTHER -> paired_peer

\* the default branch of _handle_message: what it leaves in self.paired_peer
default_paired_peer(message) ==
    CASE message.type = PEER_CONNECTED -> PySome(message.peer_id)
      [] message.type = PEER_DISCONNECTED -> PyNone
      [] OTHER -> paired_peer

handle_message_runs_default_too(message) == default_paired_peer(message)

\* _handle_message(message): what it leaves in self.paired_peer. A registered
\* handler is awaited and the method returns; else the default branch runs
handle_message(message) ==
    IF HasHandler(message.type) THEN paired_peer ELSE default_paired_peer(message)

LoopExit_leaves_heartbeat(raises) ==
    /\ UNCHANGED heartbeat_task
    /\ recv_pc' = IF raises THEN "finally_raise" ELSE "finally"
    /\ UNCHANGED recv_conn

\* the loop leaves its while or its try: the finally block cancels a heartbeat
\* task that is not done and awaits it
LoopExit(raises) ==
    /\ heartbeat_task' = IF heartbeat_task = "sleeping" THEN "done" ELSE heartbeat_task
    /\ recv_pc' = IF raises THEN "finally_raise" ELSE "finally"
    /\ UNCHANGED recv_conn

\* "while self._running and self.websocket", evaluated with the values the step leaves
LoopNext(run, ws) ==
    IF run /\ ws # NoConn
    THEN /\ recv_pc' = "recv"
         /\ recv_conn' = ws
         /\ UNCHANGED heartbeat_task
    ELSE LoopExit(FALSE)

ReceiveLoop_heartbeat_at_start ==
    /\ recv_pc = "idle"
    /\ IF ~authenticated
       THEN /\ sess_event' = Returned("receive_loop", "None", <<"not_authenticated">>)
            /\ UNCHANGED <<running, heartbeat_task, recv_pc, recv_conn>>
       ELSE /\ running' = TRUE
            /\ sess_event' = NoEvent
            /\ IF websocket # NoConn
               THEN /\ heartbeat_task' = "sleeping"
                    /\ recv_pc' = "recv"
                    /\ recv_conn' = websocket
               ELSE \* the while is not entered; the finally cancels the new task
                    /\ heartbeat_task' = "done"
                    /\ recv_pc' = "finally"
                    /\ UNCHANGED recv_conn
    /\ written' = IF authenticated /\ Open(websocket)
                  THEN <<Json(message_to_dict(HeartbeatMessage))>> ELSE <<>>
    /\ UNCHANGED <<websocket, conns, authenticated, paired_peer, session_id,
                   message_handlers, connect_pc, connect_conn, disc_pc, disc_conn>>

ReceiveLoop_without_auth_check ==
    /\ recv_pc = "idle"
    /\ running' = TRUE
    /\ sess_event' = NoEvent
    /\ IF websocket # NoConn
       THEN /\ heartbeat_task' = "sleeping"
            /\ recv_pc' = "recv"
            /\ recv_conn' = websocket
       ELSE /\ heartbeat_task' = "done"
            /\ recv_pc' = "finally"
            /\ UNCHANGED recv_conn
    /\ written' = <<>>
    /\ UNCHANGED <<websocket, conns, authenticated, paired_peer, session_id,
                   message_handlers, connect_pc, connect_conn, disc_pc, disc_conn>>

\* receive_loop() is called: it returns at once when not authenticated, else
\* sets _running, creates the heartbeat task and awaits the first frame
ReceiveLoop ==
    /\ recv_pc = "idle"
    /\ IF ~authenticated
       THEN /\ sess_event' = Returned("receive_loop", "None", <<"not_authenticated">>)
            /\ UNCHANGED <<running, heartbeat_task, recv_pc, recv_conn>>
       ELSE /\ running' = TRUE
            /\ sess_event' = NoEvent
            /\ IF websocket # NoConn
               THEN /\ heartbeat_task' = "sleeping"
                    /\ recv_pc' = "recv"
                    /\ recv_conn' = websocket
               ELSE \* the while is not entered; the finally cancels the new task
                    /\ heartbeat_task' = "done"
                    /\ recv_pc' = "finally"
                    /\ UNCHANGED recv_conn
    /\ written' = <<>>
    /\ UNCHANGED <<websocket, conns, authenticated, paired_peer, session_id,
                   message_handlers, connect_pc, connect_conn, disc_pc, disc_conn>>

\* a frame arrives at the loop: _receive_message() and, for a message,
\* _handle_message(); a registered handler is awaited in place of the default
ReceiveFrame(raw) ==
    /\ recv_pc = "recv"
    /\ Open(recv_conn)
    /\ LET message == receive_message(raw) IN
       CASE message = PyNone ->
               /\ sess_event' = <<"dropped", "JSONDecodeError", raw>>
               /\ UNCHANGED <<paired_peer, running>>
               /\ LoopNext(running, websocket)
         [] message[1] = "raise" ->
               \* except Exception
               /\ sess_event' = <<"loop_error", message[2], raw>>
               /\ running' = FALSE
               /\ UNCHANGED paired_peer
               /\ LoopExit(FALSE)
         [] OTHER ->
               IF HasHandler(message[2].type)
               THEN /\ sess_event' = <<"handler", message[2].type, raw,
                                       RegisteredHandler(message[2].type)>>
                    /\ paired_peer' = handle_message(message[2])
                    /\ IF RegisteredHandler(message[2].type) = HandlerRaising
                       THEN \* except Exception
                            /\ running' = FALSE
                            /\ LoopExit(FALSE)
                       ELSE /\ UNCHANGED running
                            /\ LoopNext(running, websocket)
               ELSE /\ sess_event' = <<"default", message[2].type, raw>>
                    /\ paired_peer' = handle_message(message[2])
                    /\ UNCHANGED running
                    /\ LoopNext(running, websocket)
    /\ written' = <<>>
    /\ UNCHANGED <<websocket, conns, authenticated, session_id, message_handlers,
                   connect_pc, connect_conn, disc_pc, disc_conn>>

\* the registered handler is awaited in the step ReceiveFrame(raw) takes
Handled(raw) ==
    LET message == receive_message(raw) IN
    message[1] = "message" /\ HasHandler(message[2].type)

\* recv() raises: ConnectionClosed once the connection is closed, another
\* WebSocketException (re-raised after the finally), or CancelledError when the
\* task of the loop is cancelled
ReceiveRaised(exc) ==
    /\ recv_pc = "recv"
    /\ exc = "ConnectionClosed" => ~Open(recv_conn)
    /\ exc = "WebSocketException" => Open(recv_conn)
    /\ running' = IF exc = "WebSocketException" THEN running ELSE FALSE
    /\ LoopExit(exc = "WebSocketException")
    /\ sess_event' = <<"loop_error", exc, <<>>>>
    /\ written' = <<>>
    /\ UNCHANGED <<websocket, conns, authenticated, paired_peer, session_id,
                   message_handlers, connect_pc, connect_conn, disc_pc, disc_conn>>

RecvExceptions == {"ConnectionClosed", "WebSocketException", "CancelledError"}

\* the awaited heartbeat task is done: receive_loop() returns or re-raises
ReceiveLoopEnd ==
    /\ recv_pc \in {"finally", "finally_raise"}
    /\ recv_pc' = "idle"
    /\ sess_event' = IF recv_pc = "finally"
                     THEN Returned("receive_loop", "None", <<"ended">>)
                     ELSE Returned("receive_loop", "WebSocketException", <<"ended">>)
    /\ written' = <<>>
    /\ UNCHANGED <<websocket, conns, authenticated, paired_peer, session_id,
                   message_handlers, running, heartbeat_task, connect_pc,
                   connect_conn, recv_conn, disc_pc, disc_conn>>

\* ---- _heartbeat_loop()

\* the sleep of the heartbeat task ends: it sends a HeartbeatMessage when still
\* running with a connection, and ends when the send raises or its while fails
HeartbeatWake ==
    /\ heartbeat_task = "sleeping"
    /\ IF running /\ websocket # NoConn
       THEN IF Open(websocket)
            THEN /\ written' = <<Json(message_to_dict(HeartbeatMessage))>>
                 /\ UNCHANGED heartbeat_task
            ELSE /\ written' = <<>>
                 /\ heartbeat_task' = "done"
       ELSE /\ written' = <<>>
            /\ heartbeat_task' = "done"
    /\ sess_event' = NoEvent
    /\ UNCHANGED <<websocket, conns, authenticated, paired_peer, session_id,
                   message_handlers, running, connect_pc, connect_conn,
                   recv_pc, recv_conn, disc_pc, disc_conn>>

\* ---- disconnect()

\* step 3 of disconnect(): what it leaves in authenticated and paired_peer
cleared_keeps_peer == [authenticated |-> FALSE, paired_peer |-> paired_peer]

cleared == [authenticated |-> FALSE, paired_peer |-> PyNone]

\* steps 2 and 3 up to the next await: with a connection, start its close;
\* without one, clear the state and return
DisconnectClose ==
    IF websocket # NoConn
    THEN /\ disc_pc' = "closing"
         /\ disc_conn' = websocket
         /\ sess_event' = NoEvent
         /\ UNCHANGED <<websocket, authenticated, paired_peer>>
    ELSE /\ disc_pc' = "idle"
         /\ authenticated' = cleared.authenticated
         /\ paired_peer' = cleared.paired_peer
         /\ sess_event' = Returned("disconnect", "None", <<"no_connection">>)
         /\ UNCHANGED <<websocket, disc_conn>>

\* disconnect() is called: _running = False; a heartbeat task that is not done
\* is cancelled and awaited, else the handle is dropped and step 2 follows
Disconnect ==
    /\ disc_pc = "idle"
    /\ running' = FALSE
    /\ IF heartbeat_task = "sleeping"
       THEN /\ heartbeat_task' = "done"
            /\ disc_pc' = "await_hb"
            /\ sess_event' = NoEvent
            /\ UNCHANGED <<websocket, authenticated, paired_peer, disc_conn>>
       ELSE /\ heartbeat_task' = "none"
            /\ DisconnectClose
    /\ written' = <<>>
    /\ UNCHANGED <<conns, session_id, message_handlers, connect_pc, connect_conn,
                   recv_pc, recv_conn>>

\* the cancelled heartbeat task is done: the handle is dropped and step 2 follows
DisconnectHeartbeatDone ==
    /\ disc_pc = "await_hb"
    /\ heartbeat_task' = "none"
    /\ DisconnectClose
    /\ written' = <<>>
    /\ UNCHANGED <<conns, session_id, message_handlers, running, connect_pc,
                   connect_conn, recv_pc, recv_conn>>

\* how wait_for(websocket.close(), 2.0) ends: the close completes, the wait
\* times out or is cancelled, or close raises
CloseOutcomes == {"closed", "TimeoutError", "CancelledError", "Exception"}

\* the close ends; left is the state it leaves the connection in. The finally
\* drops the handle, and step 3 clears the state
DisconnectClosed(outcome, left) ==
    /\ disc_pc = "closing"
    /\ outcome = "closed" => left = "closed"
    /\ conns[disc_conn] = "closed" => left = "closed"
    /\ conns' = [conns EXCEPT ![disc_conn] = left]
    /\ websocket' = NoConn
    /\ authenticated' = cleared.authenticated
    /\ paired_peer' = cleared.paired_peer
    /\ disc_pc' = "idle"
    /\ sess_event' = Returned("disconnect", "None", <<outcome>>)
    /\ written' = <<>>
    /\ UNCHANGED <<session_id, message_handlers, running, heartbeat_task,
                   connect_pc, connect_conn, recv_pc, recv_conn, disc_conn>>

\* ---- send_clipboard()

\* "if not self.authenticated: return"
send_refused_never == FALSE

send_refused_without_handle == websocket = NoConn

send_refused == ~authenticated

send_too_large_at_limit(content) == Utf8Len(content) >= MAX_MESSAGE_SIZE

\* content_size > Settings.MAX_MESSAGE_SIZE
send_too_large(content) == Utf8Len(content) > MAX_MESSAGE_SIZE

\* send_clipboard(content, source): returns without sending when not
\* authenticated or when the content is over MAX_MESSAGE_SIZE bytes; else
\* _send_message writes the frame, or raises without a connection or on a
\* closed one
SendClipboard(content, source) ==
    /\ IF send_refused
       THEN /\ written' = <<>>
            /\ sess_event' = Returned("send_clipboard", "None",
                                      <<"not_authenticated", content, source>>)
       ELSE IF send_too_large(content)
       THEN /\ written' = <<>>
            /\ sess_event' = Returned("send_clipboard", "None",
                                      <<"too_large", content, source>>)
       ELSE IF websocket = NoConn
       THEN /\ written' = <<>>
            /\ sess_event' = Returned("send_clipboard", "RuntimeError",
                                      <<"no_connection", content, source>>)
       ELSE IF ~Open(websocket)
       THEN /\ written' = <<>>
            /\ sess_event' = Returned("send_clipboard", "ConnectionClosed",
                                      <<"closed", content, source>>)
       ELSE /\ written' = <<Json(message_to_dict(ClipboardTextMessage(PeerId, content, source)))>>
            /\ sess_event' = Returned("send_clipboard", "None",
                                      <<"sent", content, source>>)
    /\ UNCHANGED <<websocket, conns, authenticated, paired_peer, session_id,
                   message_handlers, running, heartbeat_task, connect_pc,
                   connect_conn, recv_pc, recv_conn, disc_pc, disc_conn>>

\* ---- register_handler()

RegisterHandler(type, handler) ==
    /\ message_handlers' = {h \in message_handlers : h[1] # type} \cup {<<type, handler>>}
    /\ written' = <<>>
    /\ sess_event' = Returned("register_handler", "None", <<type, handler>>)
    /\ UNCHANGED <<websocket, conns, authenticated, paired_peer, session_id,
                   running, heartbeat_task, connect_pc, connect_conn,
                   recv_pc, recv_conn, disc_pc, disc_conn>>

\* ---- the relay and the network

\* the relay closes a connection, or the network drops it
ConnectionLost(c) ==
    /\ c \in 1..Len(conns)
    /\ conns[c] = "open"
    /\ conns' = [conns EXCEPT ![c] = "closed"]
    /\ written' = <<>>
    /\ sess_event' = NoEvent
    /\ UNCHANGED <<websocket, authenticated, paired_peer, session_id,
                   message_handlers, running, heartbeat_task, connect_pc,
                   connect_conn, recv_pc, recv_conn, disc_pc, disc_conn>>

\* ---- the service on its own, with handlers that do nothing: one task calls
\* connect() and receive_loop() in any order, one after the other, and starts
\* no receive_loop() during a disconnect(); disconnect(), send_clipboard() and
\* register_handler() are called at any time beside it

\* the texts a caller sends: one within MAX_MESSAGE_SIZE and one over it
SentTexts == {TextA, TextAtLimit, TextWideOverLimit}
HandlerTypes == {CLIPBOARD_TEXT}
Handlers == {"handler_a", "handler_b"}

SessionInit ==
    /\ websocket = NoConn
    /\ conns = <<>>
    /\ authenticated = FALSE
    /\ paired_peer = PyNone
    /\ session_id = PyNone
    /\ message_handlers \in {{}, {<<CLIPBOARD_TEXT, "handler_a">>}}
    /\ running = FALSE
    /\ heartbeat_task = "none"
    /\ connect_pc = "idle"
    /\ connect_conn = NoConn
    /\ recv_pc = "idle"
    /\ recv_conn = NoConn
    /\ disc_pc = "idle"
    /\ disc_conn = NoConn
    /\ written = <<>>
    /\ sess_event = NoEvent

SessionConnect(valid_url) ==
    /\ recv_pc = "idle"
    /\ Connect(valid_url)
    /\ UNCHANGED notSession

SessionConnectOpenFailed == ConnectOpenFailed /\ UNCHANGED notSession

SessionConnectOpened(sent) == ConnectOpened(sent) /\ UNCHANGED notSession

SessionConnectReply(raw) == ConnectReply(raw) /\ UNCHANGED notSession

SessionConnectClosed == ConnectClosed /\ UNCHANGED notSession

SessionConnectCancelled == ConnectCancelled /\ UNCHANGED notSession

SessionReceiveLoop ==
    /\ connect_pc = "idle"
    /\ disc_pc = "idle"
    /\ ReceiveLoop
    /\ UNCHANGED notSession

SessionReceiveFrame(raw) == ReceiveFrame(raw) /\ UNCHANGED notSession

SessionReceiveRaised(exc) == ReceiveRaised(exc) /\ UNCHANGED notSession

SessionReceiveLoopEnd == ReceiveLoopEnd /\ UNCHANGED notSession

SessionHeartbeatWake == HeartbeatWake /\ UNCHANGED notSession

SessionDisconnect == Disconnect /\ UNCHANGED notSession

SessionDisconnectHeartbeatDone == DisconnectHeartbeatDone /\ UNCHANGED notSession

SessionDisconnectClosed(outcome, left) == DisconnectClosed(outcome, left) /\ UNCHANGED notSession

SessionSendClipboard(content, source) == SendClipboard(content, source) /\ UNCHANGED notSession

SessionRegisterHandler(type, handler) == RegisterHandler(type, handler) /\ UNCHANGED notSession

SessionConnectionLost(c) == ConnectionLost(c) /\ UNCHANGED notSession

SessionNext ==
    \/ \E valid_url \in BOOLEAN : SessionConnect(valid_url)
    \/ SessionConnectOpenFailed
    \/ \E sent \in BOOLEAN : SessionConnectOpened(sent)
    \/ \E raw \in RelayFrames : SessionConnectReply(raw)
    \/ SessionConnectClosed
    \/ SessionConnectCancelled
    \/ SessionReceiveLoop
    \/ \E raw \in RelayFrames : SessionReceiveFrame(raw)
    \/ \E exc \in RecvExceptions : SessionReceiveRaised(exc)
    \/ SessionReceiveLoopEnd
    \/ SessionHeartbeatWake
    \/ SessionDisconnect
    \/ SessionDisconnectHeartbeatDone
    \/ \E outcome \in CloseOutcomes, left \in {"open", "closed"} :
           SessionDisconnectClosed(outcome, left)
    \/ \E content \in SentTexts, source \in ClipboardSyncMode :
           SessionSendClipboard(content, source)
    \/ \E type \in HandlerTypes, handler \in Handlers : SessionRegisterHandler(type, handler)
    \/ \E c \in 1..MaxConns : SessionConnectionLost(c)

\* ---- the WebSocketService under a caller that registers handlers for the
\* ---- peer events, one of them raising, on a connection that opens and takes
\* ---- the Auth message

DispatchTypes == {PEER_CONNECTED, PEER_DISCONNECTED}
DispatchHandlers == {"handler_a", HandlerRaising}

DispatchNext ==
    \/ SessionConnect(TRUE)
    \/ SessionConnectOpened(TRUE)
    \/ \E raw \in RelayFrames : SessionConnectReply(raw)
    \/ SessionReceiveLoop
    \/ \E raw \in RelayFrames : SessionReceiveFrame(raw)
    \/ \E exc \in RecvExceptions : SessionReceiveRaised(exc)
    \/ SessionReceiveLoopEnd
    \/ SessionHeartbeatWake
    \/ SessionDisconnect
    \/ SessionDisconnectHeartbeatDone
    \/ \E outcome \in CloseOutcomes, left \in {"open", "closed"} :
           SessionDisconnectClosed(outcome, left)
    \/ \E type \in DispatchTypes, handler \in DispatchHandlers :
           SessionRegisterHandler(type, handler)
    \/ \E c \in 1..MaxConns : SessionConnectionLost(c)

-----------------------------------------------------------------------------
(* SyncManager: core/sync_manager.py, run by the start command of           *)
(* cli/commands.py                                                          *)
(*                                                                          *)
(* The command runs start() on an event loop until it returns, raises or    *)
(* the user interrupts it, and then runs stop() on the same loop. A step is *)
(* the run of one task from one suspension point to the next; where a       *)
(* method calls another, the call and the return are steps of their own.    *)

\* the handler SyncManager.__init__ registers
OnClipboardReceived == "_on_clipboard_received"

\* a SyncManager that is not run
EngineIdle ==
    /\ mode = AUTO
    /\ reconnect_enabled = FALSE
    /\ start_pc = "idle"
    /\ auto_task = "none"
    /\ hotkey = "none"
    /\ stop_pc = "idle"
    /\ clip_origin = "user"
    /\ sent_log = <<>>

\* SyncManager.__init__ on a configuration: the services constructed, the
\* handler of clipboard_text registered
EngineInit ==
    /\ mode \in ClipboardSyncMode
    /\ reconnect_enabled \in BOOLEAN
    /\ start_pc = "idle"
    /\ auto_task = "none"
    /\ hotkey = "none"
    /\ stop_pc = "idle"
    /\ clip_origin = "user"
    /\ sent_log = <<>>
    \* ClipboardService(max_size_bytes = config.clipboard.max_size_mb * 1024 * 1024)
    /\ max_size_bytes \in {mb * 1024 * 1024 : mb \in 1..MaxSizeMb}
    /\ clipboard \in {EmptyText, TextA}
    /\ last_content = PyNone
    /\ last_received = PyNone
    /\ monitoring = FALSE
    /\ monitor_task = "none"
    /\ gate_hist = <<>>
    /\ gate_changed = PyNone
    \* WebSocketService(...), register_handler("clipboard_text", self._on_clipboard_received)
    /\ websocket = NoConn
    /\ conns = <<>>
    /\ authenticated = FALSE
    /\ paired_peer = PyNone
    /\ session_id = PyNone
    /\ message_handlers = {<<CLIPBOARD_TEXT, OnClipboardReceived>>}
    /\ running = FALSE
    /\ heartbeat_task = "none"
    /\ connect_pc = "idle"
    /\ connect_conn = NoConn
    /\ recv_pc = "idle"
    /\ recv_conn = NoConn
    /\ disc_pc = "idle"
    /\ disc_conn = NoConn
    /\ written = <<>>
    /\ sess_event = NoEvent
    \* ReconnectionStrategy(max_attempts = config.connection.reconnect.max_attempts)
    /\ initial_delay = RECONNECT_INITIAL_DELAY
    /\ max_delay = RECONNECT_MAX_DELAY
    /\ max_attempts \in IF reconnect_enabled THEN 0..MaxRetries ELSE {0}
    /\ attempt_count = 0
    /\ current_delay = initial_delay
    /\ nd_ret = NoCall
    /\ nd_calls = 0
    /\ nd_total = 0
    /\ resets = 0
    /\ cwr_pc = "idle"
    /\ cwr_attempts = 0
    /\ cwr_slept = <<>>
    /\ cwr_outcomes = NoOutcomes
    /\ cwr_result = "none"

\* the event loop runs tasks: within run_until_complete(start()) and
\* run_until_complete(stop())
LoopRunning ==
    \/ start_pc \in {"connecting", "connected", "hotkey_setup", "syncing"}
    \/ stop_pc = "running"

\* a step in which the WebSocketService does nothing
SessionQuiet ==
    /\ written' = <<>>
    /\ sess_event' = NoEvent
    /\ UNCHANGED <<websocket, conns, authenticated, paired_peer, session_id,
                   message_handlers, running, heartbeat_task, connect_pc,
                   connect_conn, recv_pc, recv_conn, disc_pc, disc_conn>>

\* ---- start(): _connect_with_retry()

\* start() is called: with reconnect enabled connect_with_retry() is entered
EngineStart ==
    /\ start_pc = "idle"
    /\ start_pc' = "connecting"
    /\ IF reconnect_enabled THEN CwrCall ELSE UNCHANGED policyVars
    /\ SessionQuiet
    /\ UNCHANGED <<mode, reconnect_enabled, auto_task, hotkey, stop_pc, clip_origin>>
    /\ UNCHANGED <<codecVars, legacyVars, pairVars, sent_log, gateVars>>

\* ws_service.connect() is called, by the retry loop or directly; the
\* configured worker_url has a hostname
EngineConnect ==
    /\ start_pc = "connecting"
    /\ IF reconnect_enabled THEN CwrInvoke ELSE UNCHANGED policyVars
    /\ Connect(TRUE)
    /\ UNCHANGED <<codecVars, legacyVars, pairVars, gateVars, engineVars>>

after_connect_ignores_result(connected) == "connected"

\* start(): "if not connected: return", else the mode is entered
after_connect(connected) == IF connected THEN "connected" ELSE "not_connected"

\* connect() returned result to its caller: the retry loop takes it as the
\* outcome of the attempt; a direct call hands it to start()
ConnectResult(result) ==
    IF reconnect_enabled
    THEN /\ CwrOutcome(IF result THEN "true" ELSE "false")
         /\ UNCHANGED engineVars
    ELSE /\ start_pc' = after_connect(result)
         /\ UNCHANGED <<mode, reconnect_enabled, auto_task, hotkey, stop_pc, clip_origin>>
         /\ UNCHANGED policyVars

EngineConnectOpenFailed ==
    /\ start_pc = "connecting"
    /\ ConnectOpenFailed
    /\ ConnectResult(FALSE)
    /\ UNCHANGED <<codecVars, legacyVars, pairVars, sent_log, gateVars>>

EngineConnectOpened(sent) ==
    /\ start_pc = "connecting"
    /\ ConnectOpened(sent)
    /\ IF sent THEN UNCHANGED <<policyVars, engineVars>> ELSE ConnectResult(FALSE)
    /\ UNCHANGED <<codecVars, legacyVars, pairVars, sent_log, gateVars>>

EngineConnectReply(raw) ==
    /\ start_pc = "connecting"
    /\ ConnectReply(raw)
    /\ ConnectResult(auth_accepted(receive_message(raw)))
    /\ UNCHANGED <<codecVars, legacyVars, pairVars, sent_log, gateVars>>

EngineConnectClosed ==
    /\ start_pc = "connecting"
    /\ ConnectClosed
    /\ ConnectResult(FALSE)
    /\ UNCHANGED <<codecVars, legacyVars, pairVars, sent_log, gateVars>>

\* the sleep between two attempts is over
EngineRetryWake ==
    /\ start_pc = "connecting"
    /\ CwrWake
    /\ SessionQuiet
    /\ UNCHANGED <<codecVars, legacyVars, pairVars, gateVars, engineVars>>

\* connect_with_retry() returns to start(): False ends start(); True goes on
\* like a direct connect() that returned True
EngineRetryReturn ==
    /\ start_pc = "connecting"
    /\ CwrReturn
    /\ start_pc' = after_connect(cwr_result = "true")
    /\ SessionQuiet
    /\ UNCHANGED <<mode, reconnect_enabled, auto_task, hotkey, stop_pc, clip_origin>>
    /\ UNCHANGED <<codecVars, legacyVars, pairVars, sent_log, gateVars>>

\* ---- start(): _start_auto_mode() and _start_manual_mode()

EngineSync_detached ==
    /\ start_pc = "connected"
    /\ auto_task' = IF mode = AUTO THEN "pending" ELSE auto_task
    /\ start_pc' = "returned"
    /\ ReceiveLoop
    /\ UNCHANGED <<mode, reconnect_enabled, hotkey, stop_pc, clip_origin>>
    /\ UNCHANGED <<policyVars, codecVars, legacyVars, pairVars, sent_log, gateVars>>

\* with a connection authenticated, start() enters the mode. Auto: the task of
\* start_monitoring() is created and receive_loop() is entered. Manual: the
\* hotkey is registered, which awaits an executor
EngineSync ==
    /\ start_pc = "connected"
    /\ IF mode = AUTO
       THEN /\ auto_task' = "pending"
            /\ start_pc' = "syncing"
            /\ ReceiveLoop
       ELSE /\ auto_task' = auto_task
            /\ start_pc' = "hotkey_setup"
            /\ SessionQuiet
    /\ UNCHANGED <<mode, reconnect_enabled, hotkey, stop_pc, clip_origin>>
    /\ UNCHANGED <<policyVars, codecVars, legacyVars, pairVars, sent_log, gateVars>>

\* hotkey_service.register() and start() end: the listener runs and
\* receive_loop() is entered, or the setup raised and start() re-raises
EngineHotkeySetup(ok) ==
    /\ start_pc = "hotkey_setup"
    /\ IF ok
       THEN /\ hotkey' = "listening"
            /\ start_pc' = "syncing"
            /\ ReceiveLoop
       ELSE /\ hotkey' = hotkey
            /\ start_pc' = "raised"
            /\ SessionQuiet
    /\ UNCHANGED <<mode, reconnect_enabled, auto_task, stop_pc, clip_origin>>
    /\ UNCHANGED <<policyVars, codecVars, legacyVars, pairVars, sent_log, gateVars>>

\* the task of start_monitoring(on_clipboard_change) runs
EngineStartMonitoring(ok) ==
    /\ LoopRunning
    /\ auto_task = "pending"
    /\ auto_task' = "done"
    /\ StartMonitoring(ok)
    /\ UNCHANGED <<gate_hist, gate_changed>>
    /\ SessionQuiet
    /\ UNCHANGED <<mode, reconnect_enabled, start_pc, hotkey, stop_pc, clip_origin>>
    /\ UNCHANGED <<policyVars, codecVars, legacyVars, pairVars, sent_log>>

\* one round of the monitor loop; on_clipboard_change(content) is
\* send_clipboard(content, AUTO), and what it raises the loop catches
AutoPollRound(ok) ==
    /\ LoopRunning
    /\ MonitorIteration(ok)
    /\ UNCHANGED <<gate_hist, gate_changed>>
    /\ IF Accepted(ok) # PyNone
       THEN SendClipboard(Accepted(ok)[2], AUTO)
       ELSE SessionQuiet
    /\ UNCHANGED <<mode, reconnect_enabled, start_pc, auto_task, hotkey, stop_pc,
                   clip_origin>>
    /\ UNCHANGED <<policyVars, codecVars, legacyVars, pairVars>>

EnginePoll(ok) == AutoPollRound(ok) /\ UNCHANGED sent_log

\* the hotkey is pressed: the listener's thread hands send_current_clipboard()
\* to the loop, which reads the clipboard and sends a text that is not empty
HotkeyPressRound_through_gate(ok) ==
    /\ LoopRunning
    /\ hotkey = "listening"
    /\ IF get(ok) # PyNone /\ ~should_ignore_change(get(ok)[2]).ret
       THEN SendClipboard(get(ok)[2], MANUAL)
       ELSE SessionQuiet
    /\ UNCHANGED <<mode, reconnect_enabled, start_pc, auto_task, hotkey, stop_pc,
                   clip_origin>>
    /\ UNCHANGED <<policyVars, codecVars, legacyVars, pairVars, gateVars>>

HotkeyPressRound(ok) ==
    /\ LoopRunning
    /\ hotkey = "listening"
    /\ IF get(ok) # PyNone
       THEN SendClipboard(get(ok)[2], MANUAL)
       ELSE SessionQuiet
    /\ UNCHANGED <<mode, reconnect_enabled, start_pc, auto_task, hotkey, stop_pc,
                   clip_origin>>
    /\ UNCHANGED <<policyVars, codecVars, legacyVars, pairVars, gateVars>>

EngineHotkeyPress(ok) == HotkeyPressRound(ok) /\ UNCHANGED sent_log

\* ---- the receive loop under start()

on_clipboard_received_previous(message) ==
    IF last_received # PyNone THEN last_received[2] ELSE message.content

\* _on_clipboard_received(message): the text it gives to clipboard_service.set()
on_clipboard_received(message) == message.content

\* _on_clipboard_received(message): clipboard_service.set(message.content)
EngineReceiveFrame(raw, ok) ==
    /\ LoopRunning
    /\ ReceiveFrame(raw)
    /\ IF Handled(raw) /\ receive_message(raw)[2].type = CLIPBOARD_TEXT
       THEN /\ ClipboardSet(on_clipboard_received(receive_message(raw)[2]), ok)
            /\ clip_origin' = IF ok THEN "peer" ELSE clip_origin
       ELSE /\ ok
            /\ UNCHANGED gateFields
            /\ UNCHANGED clip_origin
    /\ UNCHANGED <<gate_hist, gate_changed>>
    /\ UNCHANGED <<mode, reconnect_enabled, start_pc, auto_task, hotkey, stop_pc>>
    /\ UNCHANGED <<policyVars, codecVars, legacyVars, pairVars, sent_log>>

\* recv() raises ConnectionClosed or another WebSocketException
EngineReceiveRaised(exc) ==
    /\ LoopRunning
    /\ exc # "CancelledError"
    /\ ReceiveRaised(exc)
    /\ UNCHANGED <<policyVars, codecVars, legacyVars, pairVars, gateVars, engineVars>>

\* receive_loop() ends, and start() with it: the finally of _start_auto_mode
\* cancels the task of start_monitoring() when it has not run yet
EngineReceiveLoopEnd ==
    /\ start_pc = "syncing"
    /\ ReceiveLoopEnd
    /\ start_pc' = IF recv_pc = "finally_raise" THEN "raised" ELSE "returned"
    /\ auto_task' = IF auto_task = "pending" THEN "cancelled" ELSE auto_task
    /\ UNCHANGED <<mode, reconnect_enabled, hotkey, stop_pc, clip_origin>>
    /\ UNCHANGED <<policyVars, codecVars, legacyVars, pairVars, sent_log, gateVars>>

EngineHeartbeatWake ==
    /\ LoopRunning
    /\ HeartbeatWake
    /\ UNCHANGED <<policyVars, codecVars, legacyVars, pairVars, gateVars, engineVars>>

\* ---- the user, the relay and the network

EngineUserCopy(text) ==
    /\ UserCopy(text)
    /\ UNCHANGED <<gate_hist, gate_changed>>
    /\ clip_origin' = "user"
    /\ SessionQuiet
    /\ UNCHANGED <<mode, reconnect_enabled, start_pc, auto_task, hotkey, stop_pc>>
    /\ UNCHANGED <<policyVars, codecVars, legacyVars, pairVars, sent_log>>

EngineConnectionLost(c) ==
    /\ ConnectionLost(c)
    /\ UNCHANGED <<policyVars, codecVars, legacyVars, pairVars, gateVars, engineVars>>

\* ---- the start command: interrupt and stop()

\* KeyboardInterrupt while start() runs: _cancel_pending_tasks cancels every
\* task and runs each to its end. connect() and the retry sleep let the
\* CancelledError through, so start() raises; receive_loop() catches it, clears
\* _running and returns, so start() returns. The heartbeat task, the monitor
\* loop and a start_monitoring() task that has not run end cancelled.
EngineInterrupt ==
    /\ LoopRunning
    /\ stop_pc = "idle"
    /\ start_pc' = IF start_pc = "syncing" /\ recv_pc # "finally_raise"
                   THEN "returned" ELSE "raised"
    /\ connect_pc' = "idle"
    /\ recv_pc' = "idle"
    /\ running' = IF recv_pc = "recv" THEN FALSE ELSE running
    /\ heartbeat_task' = IF heartbeat_task = "sleeping" THEN "done" ELSE heartbeat_task
    /\ auto_task' = IF auto_task = "pending" THEN "cancelled" ELSE auto_task
    /\ monitor_task' = IF monitor_task = "running" THEN "done" ELSE monitor_task
    /\ written' = <<>>
    /\ sess_event' = NoEvent
    /\ UNCHANGED <<websocket, conns, authenticated, paired_peer, session_id,
                   message_handlers, connect_conn, recv_conn, disc_pc, disc_conn>>
    /\ UNCHANGED <<max_size_bytes, clipboard, last_content, last_received, monitoring,
                   gate_hist, gate_changed>>
    /\ UNCHANGED <<mode, reconnect_enabled, hotkey, stop_pc, clip_origin>>
    /\ UNCHANGED <<policyVars, codecVars, legacyVars, pairVars, sent_log>>

\* stop() returns when disconnect() has returned
StopNext == stop_pc' = IF disc_pc' = "idle" THEN "returned" ELSE "running"

\* start() is over and the command runs stop(): in Auto mode stop_monitoring(),
\* in Manual mode hotkey_service.stop() when there is a service; then disconnect()
EngineStop_keeps_trigger ==
    /\ start_pc \in {"not_connected", "returned", "raised"}
    /\ stop_pc = "idle"
    /\ UNCHANGED <<gateFields, gate_hist, gate_changed, hotkey>>
    /\ Disconnect
    /\ StopNext
    /\ UNCHANGED <<mode, reconnect_enabled, start_pc, auto_task, clip_origin>>
    /\ UNCHANGED <<policyVars, codecVars, legacyVars, pairVars, sent_log>>

\* stop(): the trigger is stopped (stop_monitoring() awaited, or the hotkey
\* listener stopped), then disconnect() is awaited
EngineStop ==
    /\ start_pc \in {"not_connected", "returned", "raised"}
    /\ stop_pc = "idle"
    /\ IF mode = AUTO THEN StopMonitoring ELSE UNCHANGED gateFields
    /\ UNCHANGED <<gate_hist, gate_changed>>
    /\ hotkey' = IF mode = MANUAL /\ hotkey = "listening" THEN "stopped" ELSE hotkey
    \* the heartbeat task is not alive here: receive_loop() or the interrupt ended it
    /\ Disconnect
    /\ StopNext
    /\ UNCHANGED <<mode, reconnect_enabled, start_pc, auto_task, clip_origin>>
    /\ UNCHANGED <<policyVars, codecVars, legacyVars, pairVars, sent_log>>

EngineDisconnectClosed(outcome, left) ==
    /\ stop_pc = "running"
    /\ DisconnectClosed(outcome, left)
    /\ StopNext
    /\ UNCHANGED <<mode, reconnect_enabled, start_pc, auto_task, hotkey, clip_origin>>
    /\ UNCHANGED <<policyVars, codecVars, legacyVars, pairVars, sent_log, gateVars>>

\* the texts the user copies
UserTexts == {TextA, TextB, TextWideOverLimit}

\* the frames the relay sends in a run
EngineFrames ==
    {Json(message_to_dict(m)) :
        m \in {AuthResponseMessage(TRUE, PySome(RelaySession), PyNone, PyNone),
               AuthResponseMessage(TRUE, PySome(RelaySession), PySome(RelayPeer), PyNone),
               AuthResponseMessage(FALSE, PyNone, PyNone, PySome("TOKEN_INVALID")),
               PeerEventMessage(PEER_CONNECTED, RelayPeer),
               PeerEventMessage(PEER_DISCONNECTED, RelayPeer),
               ClipboardTextMessage(RelayPeer, TextA, AUTO),
               ClipboardTextMessage(RelayPeer, TextB, AUTO)}}
    \cup {Json(UnknownTagDict), NotJson}

Next ==
    \/ EngineStart
    \/ EngineConnect
    \/ EngineConnectOpenFailed
    \/ \E sent \in BOOLEAN : EngineConnectOpened(sent)
    \/ \E raw \in EngineFrames : EngineConnectReply(raw)
    \/ EngineConnectClosed
    \/ EngineRetryWake
    \/ EngineRetryReturn
    \/ EngineSync
    \/ \E ok \in BOOLEAN : EngineHotkeySetup(ok)
    \/ \E ok \in BOOLEAN : EngineStartMonitoring(ok)
    \/ \E ok \in BOOLEAN : EnginePoll(ok)
    \/ \E ok \in BOOLEAN : EngineHotkeyPress(ok)
    \/ \E raw \in EngineFrames, ok \in BOOLEAN : EngineReceiveFrame(raw, ok)
    \/ \E exc \in RecvExceptions : EngineReceiveRaised(exc)
    \/ EngineReceiveLoopEnd
    \/ EngineHeartbeatWake
    \/ \E text \in UserTexts : EngineUserCopy(text)
    \/ \E c \in 1..MaxConns : EngineConnectionLost(c)
    \/ EngineInterrupt
    \/ EngineStop
    \/ \E outcome \in CloseOutcomes, left \in {"open", "closed"} :
           EngineDisconnectClosed(outcome, left)

\* ---- a run in Auto mode that starts on an empty clipboard, in which the user
\* ---- copies one text and the relay sends nothing after the auth response

\* a round of the monitor loop, with its call of on_clipboard_change kept
AutoPoll(ok) ==
    /\ AutoPollRound(ok)
    /\ sent_log' = IF Accepted(ok) # PyNone
                   THEN Append(sent_log, <<Accepted(ok), written'>>)
                   ELSE sent_log

\* the one copy: the clipboard goes from empty to the text
AutoUserCopy(text) == clipboard = EmptyText /\ EngineUserCopy(text)

AutoNext ==
    \/ EngineStart
    \/ EngineConnect
    \/ EngineConnectOpenFailed
    \/ \E sent \in BOOLEAN : EngineConnectOpened(sent)
    \/ \E raw \in EngineFrames : EngineConnectReply(raw)
    \/ EngineConnectClosed
    \/ EngineRetryWake
    \/ EngineRetryReturn
    \/ EngineSync
    \/ \E ok \in BOOLEAN : EngineStartMonitoring(ok)
    \/ \E ok \in BOOLEAN : AutoPoll(ok)
    \/ \E exc \in RecvExceptions : EngineReceiveRaised(exc)
    \/ EngineReceiveLoopEnd
    \/ EngineHeartbeatWake
    \/ \E text \in UserTexts : AutoUserCopy(text)
    \/ \E c \in 1..MaxConns : EngineConnectionLost(c)
    \/ EngineInterrupt
    \/ EngineStop
    \/ \E outcome \in CloseOutcomes, left \in {"open", "closed"} :
           EngineDisconnectClosed(outcome, left)

\* ---- a run in Manual mode in which the hotkey is pressed up to MaxPresses
\* ---- times on a clipboard that the user and the peer have stopped changing

\* a press of the hotkey, with its call of send_current_clipboard kept
ManualHotkeyPress(ok) ==
    /\ Len(sent_log) < MaxPresses
    /\ HotkeyPressRound(ok)
    /\ sent_log' = Append(sent_log, <<get(ok), written'>>)

ManualUserCopy(text) == sent_log = <<>> /\ EngineUserCopy(text)

ManualReceiveFrame(raw, ok) == sent_log = <<>> /\ EngineReceiveFrame(raw, ok)

ManualNext ==
    \/ EngineStart
    \/ EngineConnect
    \/ EngineConnectOpenFailed
    \/ \E sent \in BOOLEAN : EngineConnectOpened(sent)
    \/ \E raw \in EngineFrames : EngineConnectReply(raw)
    \/ EngineConnectClosed
    \/ EngineRetryWake
    \/ EngineRetryReturn
    \/ EngineSync
    \/ \E ok \in BOOLEAN : EngineHotkeySetup(ok)
    \/ \E ok \in BOOLEAN : ManualHotkeyPress(ok)
    \/ \E raw \in EngineFrames, ok \in BOOLEAN : ManualReceiveFrame(raw, ok)
    \/ \E exc \in RecvExceptions : EngineReceiveRaised(exc)
    \/ EngineReceiveLoopEnd
    \/ EngineHeartbeatWake
    \/ \E text \in UserTexts : ManualUserCopy(text)
    \/ \E c \in 1..MaxConns : EngineConnectionLost(c)
    \/ EngineInterrupt
    \/ EngineStop
    \/ \E outcome \in CloseOutcomes, left \in {"open", "closed"} :
           EngineDisconnectClosed(outcome, left)

\* ---- a caller of the SyncManager that calls start() again, with the other
\* ---- mode, when a run has ended; it may call stop() before or not. The
\* ---- configuration has reconnect disabled and max_size_mb = 1

\* start(m) on the same manager after start() has ended and while no stop() is
\* running: sync_mode is overwritten with m, and _connect_with_retry() is to
\* call connect() directly (reconnect is disabled). Nothing else of the
\* manager is touched: the clipboard service, the hotkey service and the
\* WebSocketService stay as the last run left them. A call that would put a
\* second hotkey listener beside one still listening is not followed.
ApiStartAgain(m) ==
    /\ start_pc \in {"not_connected", "returned", "raised"}
    /\ stop_pc # "running"
    /\ m # mode
    /\ m = MANUAL => hotkey # "listening"
    /\ mode' = m
    /\ start_pc' = "connecting"
    /\ stop_pc' = "idle"
    /\ ~reconnect_enabled
    /\ UNCHANGED policyVars
    /\ SessionQuiet
    /\ UNCHANGED <<reconnect_enabled, auto_task, hotkey, clip_origin>>
    /\ UNCHANGED <<codecVars, legacyVars, pairVars, sent_log, gateVars>>

ApiNext ==
    \/ EngineStart
    \/ \E m \in ClipboardSyncMode : ApiStartAgain(m)
    \/ EngineConnect
    \/ EngineConnectOpenFailed
    \/ \E sent \in BOOLEAN : EngineConnectOpened(sent)
    \/ \E raw \in EngineFrames : EngineConnectReply(raw)
    \/ EngineConnectClosed
    \/ EngineSync
    \/ \E ok \in BOOLEAN : EngineHotkeySetup(ok)
    \/ \E ok \in BOOLEAN : EngineStartMonitoring(ok)
    \/ \E ok \in BOOLEAN : EnginePoll(ok)
    \/ \E ok \in BOOLEAN : EngineHotkeyPress(ok)
    \/ \E raw \in EngineFrames, ok \in BOOLEAN : EngineReceiveFrame(raw, ok)
    \/ \E exc \in RecvExceptions : EngineReceiveRaised(exc)
    \/ EngineReceiveLoopEnd
    \/ EngineHeartbeatWake
    \/ \E text \in UserTexts : EngineUserCopy(text)
    \/ \E c \in 1..MaxConns : EngineConnectionLost(c)
    \/ EngineStop
    \/ \E outcome \in CloseOutcomes, left \in {"open", "closed"} :
           EngineDisconnectClosed(outcome, left)

-----------------------------------------------------------------------------
(* Claims about the ReconnectionStrategy, checked under SpecPolicy *)

\* the delay the k-th get_next_delay() after a reset returns while attempts are left
BackoffDelay(k) == Min(initial_delay * Pow2(k - 1), max_delay)

\* C3 as stated: when every attempt fails, connect_with_retry has invoked the
\* connect attempt exactly max_attempts times when it returns failure.
C3_ExactlyMaxAttempts ==
    cwr_result = "false" => cwr_attempts = max_attempts

\* C3 as amended: when connect_with_retry returns failure every attempt failed, the
\* connect attempt was invoked exactly max_attempts + 1 times (the first attempt
\* and max_attempts retries), and the max_attempts delays slept between them are
\* min(initial_delay * 2^(k-1), max_delay), k = 1..max_attempts.
C3_InitialAttemptPlusMaxRetries ==
    cwr_result = "false" =>
        /\ cwr_attempts = max_attempts + 1
        /\ cwr_outcomes["true"] = 0
        /\ cwr_outcomes["false"] + cwr_outcomes["raise"] = max_attempts + 1
        /\ cwr_slept = [k \in 1..max_attempts |-> BackoffDelay(k)]

C3_Witness ==
    /\ cwr_result = "false"
    /\ max_attempts = 3
    /\ initial_delay = RECONNECT_INITIAL_DELAY
    /\ cwr_attempts = 4
    /\ cwr_slept = <<1, 2, 4>>

\* C4: the k-th get_next_delay() call since construction or the last reset()
\* returns min(initial_delay * 2^(k-1), max_delay) when k <= max_attempts and
\* the exhausted value when k > max_attempts.
C4_BackoffSequence ==
    (nd_calls >= 1) =>
        nd_ret = IF nd_calls <= max_attempts THEN BackoffDelay(nd_calls) ELSE Exhausted

C4_Witness ==
    /\ initial_delay = RECONNECT_INITIAL_DELAY
    /\ max_delay = RECONNECT_MAX_DELAY
    /\ max_attempts = 7
    /\ resets = 0
    /\ nd_calls = 7
    /\ nd_ret = RECONNECT_MAX_DELAY
    /\ current_delay = RECONNECT_MAX_DELAY

\* C5: with max_attempts >= 1, the first get_next_delay() after a reset() returns
\* initial_delay, whatever calls (exhausted ones included) came before the reset.
C5_ResetRestoresOrigin ==
    (max_attempts >= 1 /\ resets >= 1 /\ nd_calls = 1) => nd_ret = initial_delay

C5_Witness ==
    /\ max_attempts >= 1
    /\ resets = 1
    /\ cwr_result = "none"
    /\ nd_total > max_attempts + 2
    /\ nd_calls = 1
    /\ nd_ret = initial_delay
    /\ initial_delay < max_delay

\* the step in which an awaited connect_fn() ends in the given way
AttemptEnds(outcome) ==
    cwr_pc = "awaiting" /\ cwr_outcomes'[outcome] = cwr_outcomes[outcome] + 1

\* what the loop does with a failed attempt: one get_next_delay(), then return
\* False when it is exhausted, else sleep that delay before the next attempt
FailedAttemptHandled ==
    LET r == get_next_delay(attempt_count, current_delay) IN
    /\ nd_total' = nd_total + 1
    /\ attempt_count' = r.attempt_count /\ current_delay' = r.current_delay
    /\ IF r.ret = Exhausted
       THEN cwr_pc' = "done" /\ cwr_result' = "false" /\ cwr_slept' = cwr_slept
       ELSE cwr_pc' = "sleep" /\ cwr_result' = cwr_result
            /\ cwr_slept' = Append(cwr_slept, r.ret)

\* C21: connect_with_retry never propagates an exception raised by the connect
\* attempt: a raising attempt is handled exactly like one that returned False
\* (one get_next_delay(), then a retry or exhaustion), and what
\* connect_with_retry ends with is always True or False
C21_ExceptionIsFailedAttempt ==
    /\ [][AttemptEnds("raise") => FailedAttemptHandled]_vars
    /\ [][AttemptEnds("false") => FailedAttemptHandled]_vars
    /\ [](cwr_pc = "done" => cwr_result \in {"true", "false"})

\* connect_with_retry has ended with False after every attempt raised
C21_Witness ==
    /\ cwr_pc = "done"
    /\ cwr_result = "false"
    /\ max_attempts = 2
    /\ cwr_outcomes["raise"] = 3
    /\ cwr_outcomes["false"] = 0


\* the number of connect_fn() invocations that have ended
AttemptsEnded ==
    cwr_outcomes["true"] + cwr_outcomes["false"] + cwr_outcomes["raise"]

\* C24: connect_with_retry ends with True exactly when an attempt returned
\* True; the step in which an attempt returns True ends the call at once, with
\* attempt_count = 0 and current_delay = initial_delay whatever failures went
\* before, and no attempt is invoked after it.
C24_TrueAtFirstSuccess ==
    /\ [](cwr_result = "true" <=> cwr_outcomes["true"] >= 1)
    /\ [](cwr_outcomes["true"] <= 1)
    /\ [](cwr_result = "true" => cwr_attempts = AttemptsEnded)
    /\ [][AttemptEnds("true") =>
             /\ cwr_pc' = "done" /\ cwr_result' = "true"
             /\ attempt_count' = 0 /\ current_delay' = initial_delay]_vars
    /\ [](cwr_pc = "done" /\ cwr_result = "true" =>
             attempt_count = 0 /\ current_delay = initial_delay)

C24_Witness ==
    /\ cwr_pc = "done" /\ cwr_result = "true"
    /\ cwr_outcomes["false"] = 1 /\ cwr_outcomes["raise"] = 2
    /\ cwr_slept = <<1, 2, 3>> /\ max_delay = 3
    /\ attempt_count = 0 /\ current_delay = initial_delay

\* the step is a call of get_next_delay()
NextDelayCalled == nd_total' = nd_total + 1

\* the step is a call of reset()
ResetCalled == resets' = resets + 1

\* C25: with attempt_count >= max_attempts, a get_next_delay() call returns
\* the exhausted value and leaves attempt_count and current_delay as they are,
\* and attempt_count stays at or above max_attempts until a reset().
C25_ExhaustedUntilReset ==
    /\ [][(attempt_count >= max_attempts /\ NextDelayCalled) =>
             /\ nd_ret' = Exhausted
             /\ attempt_count' = attempt_count
             /\ current_delay' = current_delay]_vars
    /\ [][(attempt_count >= max_attempts /\ ~ResetCalled) =>
             attempt_count' >= max_attempts]_vars

C25_Witness ==
    /\ max_attempts = 2 /\ attempt_count = 2 /\ initial_delay = 1 /\ max_delay = 5
    /\ current_delay = 4
    /\ nd_calls = 5 /\ nd_ret = Exhausted

\* the strategy was built with 0 < initial_delay <= max_delay
DelaysOrdered == 0 < initial_delay /\ initial_delay <= max_delay

\* C26: with 0 < initial_delay <= max_delay, under any order of reset() and
\* get_next_delay() calls, initial_delay <= current_delay <= max_delay and
\* 0 <= attempt_count <= max_attempts; current_delay changes only to
\* min(2 * current_delay, max_delay) in get_next_delay() or to initial_delay in
\* reset(), and attempt_count goes down only in reset().
C26_PolicyBounds ==
    /\ [](DelaysOrdered =>
             /\ initial_delay <= current_delay /\ current_delay <= max_delay
             /\ 0 <= attempt_count /\ attempt_count <= max_attempts)
    /\ [][(DelaysOrdered /\ current_delay' # current_delay) =>
             \/ NextDelayCalled /\ current_delay' = Min(2 * current_delay, max_delay)
             \/ ResetCalled /\ current_delay' = initial_delay]_vars
    /\ [][(DelaysOrdered /\ attempt_count' < attempt_count) =>
             ResetCalled /\ attempt_count' = 0]_vars

C26_Witness ==
    /\ initial_delay = 3 /\ max_delay = 5 /\ max_attempts = 3
    /\ resets = 2 /\ nd_total = 5
    /\ attempt_count = 3 /\ current_delay = 5 /\ nd_ret = Exhausted
-----------------------------------------------------------------------------
(* Claims about the codec, checked under SpecCodec *)

\* C6: a message that was encoded and decoded again comes out equal to itself.
C6_RoundTrip ==
    (codec_pc = "decoded" /\ codec_msg # NoMessage) => codec_out = codec_msg

\* the dict on the wire carries one of the known type tags
KnownTag == "type" \in DOMAIN codec_wire /\ codec_wire["type"] \in {JStr(t) : t \in MessageType}

\* C7: decoding a dict whose type tag is missing or not a known tag raises the
\* decode error, and a decoded message carries the tag of the dict it came from.
C7_UnknownTagIsDecodeError ==
    codec_pc = "decoded" =>
        /\ ~KnownTag => codec_out = DecodeError
        /\ codec_out # DecodeError => (KnownTag /\ JStr(codec_out.type) = codec_wire["type"])

C7_Witness ==
    /\ codec_pc = "decoded"
    /\ codec_msg = NoMessage
    /\ "type" \in DOMAIN codec_wire
    /\ codec_wire["type"] = JStr("bogus")
    /\ "content" \in DOMAIN codec_wire
    /\ codec_out = DecodeError

-----------------------------------------------------------------------------
(* Claims about the ClipboardService, checked under SpecGate *)

\* gate_hist is set(X) that succeeded followed by n calls of should_ignore_change(X)
AfterSetThenIgnores(n) ==
    /\ Len(gate_hist) = 1 + n
    /\ gate_hist[1].op = "set"
    /\ gate_hist[1].ret
    /\ \A i \in 2..(1 + n) : gate_hist[i].op = "ignore"

\* C2: after set(X) succeeds the next should_ignore_change(X) returns True and a
\* second should_ignore_change(X) right after it returns False, whatever the
\* text X, the size limit and the baseline _last_content are.
C2_EchoSuppressionOneShot ==
    /\ AfterSetThenIgnores(1) => gate_hist[2].ret
    /\ AfterSetThenIgnores(2) => gate_hist[2].ret /\ ~gate_hist[3].ret

-----------------------------------------------------------------------------
(* Claims about the WebSocketService, checked under SpecSession *)

\* the fields of the service
sessionFields == <<websocket, authenticated, paired_peer, session_id,
                   message_handlers, running, heartbeat_task>>

\* the frame is the JSON of an auth_response dict whose success is true
SuccessReply(raw) ==
    /\ raw[1] = "json"
    /\ {"type", "success"} \subseteq DOMAIN raw[2]
    /\ raw[2]["type"] = JStr(AUTH_RESPONSE)
    /\ raw[2]["success"] = JBool(TRUE)

\* C8: connect() returns True exactly when the one frame it awaited after
\* sending the AuthMessage is an auth_response with success true, and then
\* authenticated is True and session_id / paired_peer are the response's; on
\* every other outcome that is not a cancellation (invalid URL, open failure,
\* failed send, closed connection, frame that is not JSON, unknown tag, other
\* message, success false) it returns False, raising nothing, and an
\* authenticated that was False is still False.
C8_ConnectResult ==
    [][sess_event'[1] = "connect" /\ sess_event'[3][1] # "cancelled" =>
         LET ret == sess_event'[2]
             why == sess_event'[3]
             success == why[1] = "reply" /\ SuccessReply(why[2])
         IN /\ ret \in {"True", "False"}
            /\ ret = "True" <=> success
            /\ success =>
                 /\ authenticated'
                 /\ session_id' = dict_to_message(why[2][2]).session_id
                 /\ paired_peer' = dict_to_message(why[2][2]).paired_peer
            /\ (~success /\ ~authenticated) => ~authenticated'
      ]_vars

\* connect() has just returned True on the relay's auth_response naming a paired peer
C8_Witness ==
    /\ sess_event[1] = "connect"
    /\ sess_event[2] = "True"
    /\ authenticated
    /\ session_id = PySome(RelaySession)
    /\ paired_peer = PySome(RelayPeer)

\* C9: disconnect() returns normally from every state it is called in, leaving
\* authenticated False, paired_peer None and websocket None, however the close
\* ended; and a second call made right after one returned changes no field.
C9_DisconnectIdempotent ==
    [][sess_event'[1] = "disconnect" =>
         /\ sess_event'[2] = "None"
         /\ ~authenticated'
         /\ paired_peer' = PyNone
         /\ websocket' = NoConn
         /\ sess_event[1] = "disconnect" => UNCHANGED <<sessionFields, conns>>
      ]_vars

\* disconnect() has just returned after its close timed out, while
\* receive_loop() awaits a frame and a peer was paired before the call
C9_Witness ==
    /\ sess_event = Returned("disconnect", "None", <<"TimeoutError">>)
    /\ recv_pc = "recv"
    /\ session_id # PyNone
    /\ ~authenticated
    /\ paired_peer = PyNone
    /\ websocket = NoConn

\* C10: send_clipboard() called while authenticated is False writes no frame
\* and changes no field of the service.
C10_SendUnauthenticatedIsNoOp ==
    [][sess_event'[1] = "send_clipboard" /\ ~authenticated =>
         /\ written' = <<>>
         /\ UNCHANGED <<sessionFields, conns>>
      ]_vars

\* send_clipboard() has just returned without sending, not authenticated, with
\* an open connection in hand
C10_Witness ==
    /\ sess_event[1] = "send_clipboard"
    /\ sess_event[3][1] = "not_authenticated"
    /\ ~authenticated
    /\ Open(websocket)

\* the text is longer in UTF-8 than max_size_bytes
Oversize(text) == Utf8Len(text) > max_size_bytes

\* every recorded should_ignore_change() call on an oversize text returned True,
\* and no round of the monitor loop hands an oversize text to on_change
OversizeIgnored ==
    /\ \A i \in 1..Len(gate_hist) :
           gate_hist[i].op = "ignore" /\ Oversize(gate_hist[i].arg) => gate_hist[i].ret
    /\ gate_changed # PyNone => ~Oversize(gate_changed[2])

\* C12 as stated: should_ignore_change(content) returns True on every call for
\* content longer than max_size_bytes, whatever the marker and the baseline,
\* and such content never becomes the baseline _last_content
C12_SizeGatePersistent ==
    /\ OversizeIgnored
    /\ last_content # PyNone => ~Oversize(last_content[2])

\* C12 amended: should_ignore_change(content) returns True on every call for
\* oversize content and no round of the monitor loop makes such content the
\* baseline; only start_monitoring(), which takes the clipboard as it is,
\* can leave an oversize baseline
C12_SizeGatePersistentInLoop ==
    /\ []OversizeIgnored
    /\ [][(last_content' # last_content /\ last_content' # PyNone
             /\ Oversize(last_content'[2]))
          => (~monitoring /\ monitoring' /\ last_content' = PySome(clipboard))]_vars

\* two should_ignore_change() calls in a row on an oversize text, the second
\* with the marker cleared by the first, both returned True; the baseline is
\* another text
C12_Witness ==
    /\ Len(gate_hist) = 3
    /\ gate_hist[1].op = "set" /\ gate_hist[1].ret
    /\ gate_hist[2].op = "ignore" /\ gate_hist[2].ret
    /\ gate_hist[3].op = "ignore" /\ gate_hist[3].ret
    /\ Oversize(gate_hist[3].arg)
    /\ last_received = PyNone
    /\ last_content = PySome(TextA)

\* C13 as stated: when should_ignore_change(c) returns False, c becomes the
\* baseline, so a second should_ignore_change(c) in a row returns True
C13_UnchangedContentIgnored ==
    \A i \in 1..(Len(gate_hist) - 1) :
        (gate_hist[i].op = "ignore" /\ gate_hist[i + 1].op = "ignore" /\ ~gate_hist[i].ret)
            => gate_hist[i + 1].ret

\* C13 amended: it is the round of the monitor loop, not should_ignore_change,
\* that makes an accepted text the baseline: the text a round hands to
\* on_change is the baseline after it, should_ignore_change of the baseline
\* returns True, and two rounds in a row never hand over the same text
C13_UnchangedContentIgnoredByLoop ==
    /\ [](last_content # PyNone => should_ignore_change(last_content[2]).ret)
    /\ [][gate_changed' # PyNone => last_content' = gate_changed']_vars
    /\ [][(gate_changed # PyNone /\ gate_changed' # PyNone)
             => gate_changed' # gate_changed]_vars

\* a round of the monitor loop has just accepted a text that differs from the
\* one the service last wrote
C13_Witness ==
    /\ monitoring
    /\ gate_changed = PySome(TextB)
    /\ last_content = PySome(TextB)
    /\ clipboard = TextB
    /\ last_received = PySome(TextA)

\* the latest recorded direct call
LastCall(hist) == hist[Len(hist)]

\* C14: set(content) returns True and records content in _last_received when
\* the clipboard write succeeds; when the write fails it returns False and
\* leaves _last_received and _last_content as they were
C14_ApplyRemote ==
    [][(gate_hist' # <<>> /\ gate_hist' # gate_hist /\ LastCall(gate_hist').op = "set") =>
         IF LastCall(gate_hist').ret
         THEN /\ clipboard' = LastCall(gate_hist').arg
              /\ last_received' = PySome(LastCall(gate_hist').arg)
              /\ last_content' = last_content
         ELSE UNCHANGED <<clipboard, last_received, last_content>>
      ]_vars

\* set(TextB) has just failed with another text recorded as last applied and
\* a baseline in place
C14_Witness ==
    /\ gate_hist = <<[op |-> "set", arg |-> TextB, ret |-> FALSE]>>
    /\ last_received = PySome(TextA)
    /\ last_content # PyNone
    /\ clipboard # TextB

\* the step is a call of should_ignore_change(t): a direct call, or the one a
\* round of the monitor loop makes on the text it read
IgnoreCalled(t) ==
    \/ gate_hist' # <<>> /\ LastCall(gate_hist').op = "ignore" /\ LastCall(gate_hist').arg = t
    \/ gate_hist' = <<>> /\ monitor_task = "running" /\ monitoring
          /\ gate_changed' = PyNone /\ clipboard = t /\ last_received' # last_received

\* the step is a set() that succeeded
SetSucceeded ==
    gate_hist' # <<>> /\ LastCall(gate_hist').op = "set" /\ LastCall(gate_hist').ret

\* C33: should_ignore_change() reads and clears the marker in one step: a call
\* that finds its content equal to the marker leaves the marker cleared, and
\* only a set() that succeeded sets a marker, so one set(X) makes one call
\* return True on account of the marker at most, under any order of direct
\* calls, rounds of the monitor loop and user copies.
C33_MarkerReadAndClear ==
    /\ [][\A t \in Texts \ {EmptyText} :
             (IgnoreCalled(t) /\ last_received = PySome(t)) =>
                 last_received' = PyNone]_vars
    /\ [][(last_received' # PyNone /\ last_received' # last_received) =>
             SetSucceeded]_vars
    /\ [](AfterSetThenIgnores(2) /\ gate_hist[1].arg # EmptyText =>
             (gate_hist[2].ret /\ (gate_hist[3].ret => gate_hist[3].arg # gate_hist[1].arg
                                     \/ PySome(gate_hist[3].arg) = last_content
                                     \/ Utf8Len(gate_hist[3].arg) > max_size_bytes)))

C33_Witness ==
    /\ AfterSetThenIgnores(2)
    /\ gate_hist[1].arg = TextA
    /\ gate_hist[2].ret /\ ~gate_hist[3].ret
    /\ last_received = PyNone
    /\ monitor_task = "running"

\* the one frame written is a clipboard_text frame from the local peer with
\* the given content and source
OneClipboardFrame(frames, content, source) ==
    /\ Len(frames) = 1
    /\ frames[1][1] = "json"
    /\ frames[1][2]["type"] = JStr(CLIPBOARD_TEXT)
    /\ frames[1][2]["from"] = JStr(PeerId)
    /\ frames[1][2]["content"] = JStr(content)
    /\ frames[1][2]["source"] = JStr(source)

\* C11: on an authenticated session send_clipboard(content, source) writes no
\* frame when the UTF-8 length of content exceeds the maximum message size,
\* and otherwise (the length at the maximum included) writes to its open
\* connection exactly one clipboard_text frame from the local peer id with
\* that content and source; with the connection closed the write raises and
\* no frame is written
C11_SendWritesOneFrame ==
    [][sess_event'[1] = "send_clipboard" /\ authenticated =>
         IF Utf8Len(sess_event'[3][2]) > MAX_MESSAGE_SIZE
         THEN written' = <<>> /\ sess_event'[2] = "None"
         ELSE IF websocket # NoConn /\ Open(websocket)
         THEN /\ OneClipboardFrame(written', sess_event'[3][2], sess_event'[3][3])
              /\ sess_event'[2] = "None"
         ELSE written' = <<>> /\ sess_event'[2] \in {"RuntimeError", "ConnectionClosed"}
      ]_vars

\* send_clipboard() has just written a frame whose content is exactly
\* MAX_MESSAGE_SIZE bytes long
C11_Witness ==
    /\ sess_event[1] = "send_clipboard"
    /\ sess_event[3][1] = "sent"
    /\ sess_event[3][2] = TextAtLimit
    /\ Utf8Len(TextAtLimit) = MAX_MESSAGE_SIZE
    /\ authenticated
    /\ Len(written) = 1

\* the step takes a frame off the connection that does not reach a registered
\* handler: it is not JSON, its type is unknown, or its type has no handler
UnhandledFrameArrives ==
    /\ recv_pc = "recv"
    /\ running
    /\ websocket # NoConn
    /\ sess_event'[1] \in {"dropped", "loop_error", "default"}
    /\ sess_event'[3] # <<>>

\* C20: in steady state a frame that cannot be turned into a handled message
\* (not parseable, type missing or unknown, or a known type without handler)
\* is dropped and is not fatal: receive_loop() stays running, keeps its
\* heartbeat task and goes on to await the next frame
C20_BadFrameNotFatal ==
    [][UnhandledFrameArrives =>
         (recv_pc' = "recv" /\ running' /\ heartbeat_task' = heartbeat_task)]_vars

\* receive_loop() awaits a frame on a connection that is closed
AwaitsOnClosedTransport == recv_pc = "recv" /\ ~Open(recv_conn)

\* receive_loop() awaits a frame and disconnect() has cleared _running
AwaitsAfterDisconnect == recv_pc = "recv" /\ ~running

\* receive_loop() has returned or raised
LoopTerminated == recv_pc = "idle"

\* once the transport is closed the loop ends, whatever the close code
C23_ClosedTransportEndsLoop == AwaitsOnClosedTransport ~> LoopTerminated

\* C23: a receive_loop() that awaits a frame terminates eventually once the
\* transport is closed, and once disconnect() has been called, also when the
\* close in disconnect() times out and the connection is dropped unclosed.
C23_LoopTerminates ==
    /\ C23_ClosedTransportEndsLoop
    /\ AwaitsAfterDisconnect ~> LoopTerminated

\* receive_loop() was called on a session that is not authenticated
UnauthenticatedLoopCall ==
    sess_event' = Returned("receive_loop", "None", <<"not_authenticated">>)

\* C27: receive_loop() on a session that is not authenticated returns at once:
\* no step taken while the session is not authenticated and no loop runs sets
\* _running, creates a heartbeat task or starts to read, and the call itself
\* changes nothing of the session and writes nothing.
C27_UnauthenticatedLoopReturns ==
    /\ [][(~authenticated /\ recv_pc = "idle") =>
             /\ recv_pc' = "idle"
             /\ running' => running
             /\ heartbeat_task' = "sleeping" => heartbeat_task = "sleeping"]_vars
    /\ [][UnauthenticatedLoopCall =>
             /\ ~authenticated
             /\ written' = <<>>
             /\ UNCHANGED <<websocket, conns, authenticated, paired_peer, session_id,
                            message_handlers, running, heartbeat_task, recv_pc,
                            recv_conn>>]_vars

C27_Witness ==
    /\ sess_event = Returned("receive_loop", "None", <<"not_authenticated">>)
    /\ Open(websocket)
    /\ ~authenticated /\ ~running /\ heartbeat_task = "none" /\ recv_pc = "idle"

\* the frames hold a heartbeat frame
HeartbeatFrameIn(frames) ==
    \E i \in 1..Len(frames) : frames[i] = Json(message_to_dict(HeartbeatMessage))

\* receive_loop() has left its loop: it is in its finally block or has ended
LoopLeft == recv_pc \in {"finally", "finally_raise", "idle"}

\* C28: however receive_loop() leaves its loop (_running cleared, the
\* connection closed, a WebSocketException re-raised, a handler raising, the
\* task cancelled), the heartbeat task is cancelled before receive_loop()
\* returns or raises, and a heartbeat frame is written only while the loop runs.
C28_HeartbeatEndsWithLoop ==
    /\ [](LoopLeft => heartbeat_task # "sleeping")
    /\ [][HeartbeatFrameIn(written') => (recv_pc = "recv" /\ recv_pc' = "recv")]_vars

C28_Witness ==
    /\ recv_pc = "finally"
    /\ sess_event[1] = "handler"
    /\ sess_event[4] = HandlerRaising
    /\ ~running /\ heartbeat_task = "done"
    /\ Open(websocket)

\* the step dispatches a received message: a handler or the default branch runs
FrameDispatched == recv_pc = "recv" /\ sess_event'[1] \in {"handler", "default"}

\* the step is register_handler(type, handler)
HandlerRegistered(type, handler) ==
    sess_event' = Returned("register_handler", "None", <<type, handler>>)

\* C29: a message whose type has a registered handler is given to that
\* handler only: the default branch does not run, so paired_peer is left as
\* it is for a peer event too; the handler invoked is the one registered last
\* for the type, and a type has one handler at most.
C29_HandlerExclusive ==
    /\ [][(FrameDispatched /\ HasHandler(sess_event'[2])) =>
             /\ sess_event'[1] = "handler"
             /\ sess_event'[4] = RegisteredHandler(sess_event'[2])
             /\ paired_peer' = paired_peer]_vars
    /\ [][(FrameDispatched /\ ~HasHandler(sess_event'[2])) =>
             sess_event'[1] = "default"]_vars
    /\ [][\A type \in DispatchTypes, handler \in DispatchHandlers :
             HandlerRegistered(type, handler) =>
                 message_handlers' =
                     {h \in message_handlers : h[1] # type} \cup {<<type, handler>>}]_vars
    /\ [](\A h1, h2 \in message_handlers : h1[1] = h2[1] => h1 = h2)

C29_Witness ==
    /\ sess_event[1] = "handler"
    /\ sess_event[2] = PEER_CONNECTED
    /\ sess_event[4] = "handler_a"
    /\ paired_peer = PyNone
    /\ <<PEER_DISCONNECTED, HandlerRaising>> \in message_handlers
    /\ recv_pc = "recv"

\* the step is connect() returning True on the AuthResponse raw
ConnectAccepted(raw) == sess_event' = Returned("connect", "True", <<"reply", raw>>)

\* C30: with no handler registered for the peer events, connect() leaves in
\* paired_peer the value of the AuthResponse, and each message the loop
\* dispatches leaves it the peer_id of a peer_connected, None after a
\* peer_disconnected, and unchanged after any other message or a dropped frame.
C30_PairedPeerTracksPeerEvents ==
    /\ [][\A raw \in RelayFrames : ConnectAccepted(raw) =>
             paired_peer' = receive_message(raw)[2].paired_peer]_vars
    /\ [][FrameDispatched =>
             LET m == receive_message(sess_event'[3])[2] IN
             paired_peer' = IF m.type = PEER_CONNECTED THEN PySome(m.peer_id)
                            ELSE IF m.type = PEER_DISCONNECTED THEN PyNone
                            ELSE paired_peer]_vars
    /\ [][(recv_pc = "recv" /\ recv_pc' # "idle" /\ sess_event'[1] \in {"dropped", "loop_error"}) =>
             paired_peer' = paired_peer]_vars

C30_Witness ==
    /\ sess_event[1] = "default"
    /\ sess_event[2] = PEER_CONNECTED
    /\ authenticated /\ session_id = PyNone
    /\ paired_peer = PySome(RelayPeer)
    /\ recv_pc = "recv"

\* C31: a heartbeat frame is written only by the heartbeat task when its sleep
\* ends, never in the step that starts receive_loop(); at that step _running is
\* True and self.websocket is a connection; the frame is one HeartbeatMessage
\* that carries the peer_id of this client.
C31_HeartbeatAfterSleepWhileRunning ==
    /\ [][HeartbeatFrameIn(written') =>
             /\ heartbeat_task = "sleeping"
             /\ recv_pc # "idle"
             /\ running /\ websocket # NoConn
             /\ Len(written') = 1
             /\ written'[1][2]["type"] = JStr(HEARTBEAT)
             /\ written'[1][2]["peer_id"] = JStr(PeerId)]_vars
    /\ [][(recv_pc = "idle" /\ recv_pc' # "idle") => written' = <<>>]_vars

C31_Witness ==
    /\ HeartbeatFrameIn(written)
    /\ running /\ Open(websocket) /\ recv_pc = "recv" /\ heartbeat_task = "sleeping"

-----------------------------------------------------------------------------
(* Claims about the running program, checked under Spec and SpecAuto *)

\* a round of the monitor loop takes the text on the clipboard as the new
\* baseline while the session is authenticated on an open connection
AcceptingPollOnLiveSession ==
    /\ monitoring
    /\ last_content' # last_content
    /\ last_content' = PySome(clipboard)
    /\ authenticated
    /\ websocket # NoConn
    /\ Open(websocket)

\* C15: in Auto mode on an authenticated session with no inbound frames, when
\* the clipboard goes once from empty to a text V within the size limits and
\* stays V, exactly one clipboard_text frame with content V and source auto
\* is sent, however many rounds of the monitor loop follow: the round that
\* first accepts V sends the frame, and no round sends another
C15_ExactlyOneFrame ==
    /\ [](/\ Len(sent_log) <= 1
          /\ sent_log # <<>> =>
                /\ sent_log[1][1] = PySome(clipboard)
                /\ sent_log[1][2] # <<>> => OneClipboardFrame(sent_log[1][2], clipboard, AUTO))
    /\ [][(AcceptingPollOnLiveSession /\ Utf8Len(clipboard) <= MAX_MESSAGE_SIZE)
             => /\ Len(sent_log') = 1
                /\ OneClipboardFrame(sent_log'[1][2], clipboard, AUTO)]_vars

\* the frame with the copied text was sent by an earlier round, the loop is
\* still monitoring and the receive loop is still waiting for a frame
C15_Witness ==
    /\ mode = AUTO
    /\ Len(sent_log) = 1
    /\ OneClipboardFrame(sent_log[1][2], TextA, AUTO)
    /\ clipboard = TextA
    /\ written = <<>>
    /\ sess_event = NoEvent
    /\ gate_changed = PyNone
    /\ monitoring /\ monitor_task = "running"
    /\ authenticated /\ recv_pc # "idle"

\* the session is authenticated on an open connection
LiveSession == authenticated /\ websocket # NoConn /\ Open(websocket)

\* C16: in Manual mode the send path never consults the ClipboardService's
\* marker or baseline: every press of the hotkey that reads a text that is
\* not empty calls send_clipboard(text, MANUAL), which on a live session and
\* within MAX_MESSAGE_SIZE writes one clipboard_text frame with source manual,
\* whatever _last_received and _last_content hold, and leaves both as they
\* were; a press that reads nothing sends nothing
C16_ManualSendBypassesGate ==
    [][Len(sent_log') > Len(sent_log) =>
         LET press == sent_log'[Len(sent_log')] IN
         /\ press[1] \in {PyNone, PySome(clipboard)}
         /\ clipboard = EmptyText => press[1] = PyNone
         /\ IF press[1] # PyNone /\ LiveSession /\ Utf8Len(clipboard) <= MAX_MESSAGE_SIZE
            THEN OneClipboardFrame(press[2], clipboard, MANUAL)
            ELSE press[2] = <<>>
         /\ UNCHANGED <<last_received, last_content, clipboard>>
      ]_vars

\* two presses in a row on the text the peer's frame put on the clipboard have
\* each sent a frame with that text
C16_Witness ==
    /\ mode = MANUAL
    /\ Len(sent_log) = 2
    /\ OneClipboardFrame(sent_log[1][2], clipboard, MANUAL)
    /\ OneClipboardFrame(sent_log[2][2], clipboard, MANUAL)
    /\ clip_origin = "peer"
    /\ last_received = PySome(clipboard)

\* the step in which the connection phase of start() fails: the direct
\* connect() returns False, or connect_with_retry() returns False
ConnectPhaseFails ==
    /\ start_pc = "connecting"
    /\ IF reconnect_enabled
       THEN cwr_pc = "done" /\ cwr_pc' = "idle" /\ cwr_result = "false"
       ELSE sess_event'[1] = "connect" /\ sess_event'[2] = "False"

\* C17: when the connection phase of start() fails (the direct connect()
\* returns False, or connect_with_retry() is exhausted), start() returns at
\* once and for that run no monitor task and no hotkey listener is started,
\* receive_loop() is never entered and no heartbeat task is created
C17_FailedConnectStops ==
    /\ [][ConnectPhaseFails => start_pc' = "not_connected"]_vars
    /\ [](start_pc = "not_connected" =>
            /\ auto_task = "none" /\ monitor_task = "none" /\ ~monitoring
            /\ hotkey = "none"
            /\ recv_pc = "idle" /\ ~running
            /\ heartbeat_task = "none")

\* connect_with_retry() was exhausted after a retry, start() has returned and
\* stop() has run to its end
C17_Witness ==
    /\ start_pc = "not_connected"
    /\ reconnect_enabled
    /\ cwr_result = "false"
    /\ cwr_attempts = 2
    /\ stop_pc = "returned"

\* C18: after a successful connection start() does not return while
\* receive_loop() is still running: receive_loop() runs only inside start(),
\* and start() leaves its wait only in a step that ends receive_loop(), by
\* returning or by raising
C18_StartOutlivesReceiveLoop ==
    /\ [](recv_pc # "idle" => start_pc = "syncing")
    /\ [](start_pc \in {"returned", "raised", "not_connected"} => recv_pc = "idle")
    /\ [][(start_pc = "syncing" /\ start_pc' # "syncing")
             => (recv_pc # "idle" /\ recv_pc' = "idle"
                 /\ start_pc' \in {"returned", "raised"})]_vars

\* receive_loop() has just ended on a closed connection and start() has
\* returned with it
C18_Witness ==
    /\ start_pc = "returned"
    /\ sess_event = Returned("receive_loop", "None", <<"ended">>)
    /\ recv_pc = "idle"
    /\ authenticated
    /\ ~Open(websocket)

\* the trigger source is alive: the monitor loop's task, the task that is to
\* start it, or the hotkey listener
TriggerAlive == monitor_task = "running" \/ auto_task = "pending" \/ hotkey = "listening"

\* the step cancels the heartbeat task (the task does not end of itself)
HeartbeatCancelled ==
    /\ heartbeat_task = "sleeping"
    /\ heartbeat_task' # "sleeping"
    /\ (recv_pc' # recv_pc \/ disc_pc' # disc_pc \/ start_pc' # start_pc)

\* the step in which disconnect() starts closing the connection
CloseStarts == disc_pc # "closing" /\ disc_pc' = "closing"

\* C19 as stated: in every execution the trigger source has terminated before
\* the heartbeat task is cancelled, and the heartbeat task has terminated
\* before the connection is closed
C19_StopOrder ==
    /\ [][HeartbeatCancelled => ~TriggerAlive']_vars
    /\ [][CloseStarts => heartbeat_task' # "sleeping"]_vars

\* C19 amended: stop() stops the trigger source and awaits it, then
\* disconnect() cancels and awaits a heartbeat task that is still alive, then
\* closes the connection: when the close starts, while it runs and once
\* stop() has returned, neither the trigger source nor the heartbeat task is
\* alive. The heartbeat task itself is cancelled earlier, by the exit of
\* receive_loop(), while the trigger source may still be alive
C19_StopOrderInStop ==
    /\ [][CloseStarts => (~TriggerAlive' /\ ~monitoring' /\ heartbeat_task' # "sleeping")]_vars
    /\ [](disc_pc = "closing" => (~TriggerAlive /\ heartbeat_task # "sleeping"))
    /\ [](stop_pc = "returned" =>
            (~TriggerAlive /\ heartbeat_task # "sleeping" /\ websocket = NoConn))

\* in Auto mode stop() is closing an open connection: the monitor loop, which
\* had taken a baseline, and the heartbeat task are gone
C19_Witness ==
    /\ mode = AUTO
    /\ stop_pc = "running"
    /\ disc_pc = "closing"
    /\ Open(disc_conn)
    /\ last_content # PyNone
    /\ monitor_task = "none"
    /\ heartbeat_task = "none"

\* the monitor loop of the clipboard service is polling
PollerActive == monitor_task = "running"

\* C22: over the calls of start(mode) and stop() on one manager, a new start()
\* with the other mode after a run ended included, the monitor loop and the
\* hotkey listener are never both active, and once stop() has returned neither
\* is active.
C22_OneTriggerRegime ==
    /\ ~(PollerActive /\ hotkey = "listening")
    /\ stop_pc = "returned" => (~PollerActive /\ hotkey # "listening")

\* the frame is a clipboard_text frame carrying content
ClipboardFrameOf(raw, content) ==
    /\ raw[1] = "json"
    /\ raw[2]["type"] = JStr(CLIPBOARD_TEXT)
    /\ raw[2]["content"] = JStr(content)

\* C1: in Auto mode, while the text on the clipboard is one the clipboard_text
\* handler applied from the peer (the user has copied nothing since), no step
\* writes a clipboard_text frame carrying that text, however many rounds of
\* the monitor loop read it back.
C1_NoEchoInAutoMode ==
    (mode = AUTO /\ clip_origin = "peer") =>
        \A i \in 1..Len(written) : ~ClipboardFrameOf(written[i], clipboard)

\* the step reads the clipboard_text frame raw and awaits _on_clipboard_received
ClipboardFrameHandled(raw) ==
    /\ recv_pc = "recv"
    /\ sess_event' = <<"handler", CLIPBOARD_TEXT, raw, OnClipboardReceived>>

\* C32: the step that reads a clipboard_text frame also runs its handler to
\* the end, before the loop reads again: when the step changes the clipboard or
\* the echo marker, it leaves in them the content of the frame just read,
\* whatever the heartbeat task, the monitor loop and the hotkey do in between;
\* and no other step of the receive loop touches the clipboard.
C32_FramesAppliedInOrder ==
    /\ [][\A raw \in EngineFrames : ClipboardFrameHandled(raw) =>
             LET content == receive_message(raw)[2].content IN
             \/ clipboard' = content /\ last_received' = PySome(content)
             \/ clipboard' = clipboard /\ last_received' = last_received]_vars
    /\ [][(clip_origin' = "peer" /\ clipboard' # clipboard) =>
             \E raw \in EngineFrames : ClipboardFrameHandled(raw)]_vars

C32_Witness ==
    /\ sess_event[1] = "handler"
    /\ sess_event[2] = CLIPBOARD_TEXT
    /\ receive_message(sess_event[3])[2].content = TextB
    /\ clipboard = TextB /\ clip_origin = "peer"
    /\ last_content = PySome(TextA)
    /\ monitor_task = "running" /\ recv_pc = "recv"

\* connect() returns False in this step, after it had opened a connection
ConnectFailedAfterOpen ==
    /\ sess_event'[1] = "connect" /\ sess_event'[2] = "False"
    /\ sess_event'[3][1] \in {"reply", "closed", "send_failed"}

\* the connections of this service that are open
OpenConns == {c \in 1..Len(conns) : conns[c] = "open"}

\* C36: a connect() that returns False after it opened a connection has
\* closed it and cleared self.websocket, so that over the retries of
\* connect_with_retry() at most one connection is open at a time.
C36_FailedConnectLeavesNothingOpen ==
    /\ [][ConnectFailedAfterOpen => (websocket' = NoConn /\ OpenConns' = {})]_vars
    /\ [](Cardinality(OpenConns) <= 1)

\* C37: in Auto mode on an authenticated session with an open connection,
\* every round of the monitor loop that accepts the text on the clipboard
\* (should_ignore_change returns False and the text becomes the baseline)
\* writes exactly one clipboard_text frame with that text and source auto,
\* whatever max_size_bytes the clipboard service was configured with.
C37_AcceptedSampleIsSent ==
    [][(mode = AUTO /\ AcceptingPollOnLiveSession)
          => OneClipboardFrame(written', clipboard, AUTO)]_vars

\* is_connected()
is_connected == authenticated /\ websocket # NoConn

\* receive_loop() has just returned or raised with its connection closed, and
\* no disconnect() was called
LoopEndedOnDeadTransport ==
    /\ sess_event[1] = "receive_loop"
    /\ recv_pc = "idle"
    /\ websocket # NoConn /\ ~Open(websocket)
    /\ disc_pc = "idle"

\* C39: when the receive loop has ended with its connection closed, the
\* service no longer reports itself connected (authenticated is False and
\* is_connected() returns False), and a send_clipboard() that follows returns
\* for want of authentication instead of writing to the closed connection,
\* without any disconnect().
C39_DeadTransportNotConnected ==
    /\ [](LoopEndedOnDeadTransport => (~authenticated /\ ~is_connected))
    /\ [][(LoopEndedOnDeadTransport /\ sess_event'[1] = "send_clipboard")
             => sess_event'[3][1] = "not_authenticated"]_vars

\* no disconnect() is in progress and no connect() has succeeded since the
\* service was constructed or disconnect() cleared self.authenticated
NotConnectedSince == ~authenticated /\ disc_pc = "idle"

StartOverInAuto == mode = AUTO /\ start_pc \in {"returned", "raised"}

\* C35: once start() has returned or raised in Auto mode, the monitor loop
\* of the clipboard service is no longer alive, whether stop() was called
\* or not: its task has ended, so no poll and no send by the poller can
\* follow.
C35_PollerEndsWithStart ==
    StartOverInAuto => monitor_task # "running"

-----------------------------------------------------------------------------
(* The legacy WebSocketClient (src/wsclip/core/websocket_client.py) as      *)
(* run_client() of src/wsclip/main.py drives it: connect_with_retry(),      *)
(* maintain_connection(), and disconnect() in the finally clause. It keeps  *)
(* the fields the WebSocketService has under the same names.                *)

\* WebSocketClient.__init__
LegacyIdle == maintain_pc = "idle"

\* self.enable_reconnect, from config.enable_reconnect
enable_reconnect == reconnect_enabled

\* what the legacy client never has: the service's tasks and positions, the
\* other components
legacyRest == <<policyVars, codecVars, gateVars, pairVars, message_handlers, heartbeat_task,
                connect_pc, connect_conn, recv_pc, recv_conn, disc_pc, disc_conn,
                engineVars>>

\* connect_with_retry(), called by run_client() or by maintain_connection(): one
\* connect(), which opens a connection or not, writes the auth frame and
\* reads the reply raw, catching every Exception; when it returns False the
\* reconnection strategy, if there is one, has it called again or gives up
LegacyConnect(opened, raw, again) ==
    /\ maintain_pc \in {"idle", "connecting"}
    /\ opened => Len(conns) < MaxConns
    /\ LET response == receive_message(raw)
           ok == opened /\ auth_accepted(response)
       IN
       /\ IF opened
          THEN /\ conns' = Append(conns, "open")
               /\ websocket' = Len(conns) + 1
               /\ written' = <<Json(message_to_dict(AuthMessage))>>
          ELSE /\ UNCHANGED <<conns, websocket>>
               /\ written' = <<>>
       /\ IF ok
          THEN /\ authenticated' = TRUE
               /\ session_id' = response[2].session_id
               /\ paired_peer' = response[2].paired_peer
               /\ sess_event' = Returned("connect", "True", <<"reply", raw>>)
          ELSE /\ UNCHANGED <<authenticated, session_id, paired_peer>>
               /\ sess_event' = Returned("connect", "False",
                                         IF opened THEN <<"reply", raw>> ELSE <<"open_failed">>)
       /\ maintain_pc' = IF ok
                         THEN (IF maintain_pc = "idle" THEN "connected" ELSE "listening")
                         ELSE IF enable_reconnect /\ again THEN maintain_pc
                         ELSE IF maintain_pc = "idle" THEN "not_connected"
                         ELSE "returned"
    /\ UNCHANGED <<running, legacyRest>>

\* maintain_connection() is awaited: by run_client() after its
\* connect_with_retry() returned True, or by a caller that did not connect
LegacyMaintain ==
    /\ maintain_pc \in {"idle", "connected"}
    /\ running' = TRUE
    /\ maintain_pc' = "top"
    /\ written' = <<>>
    /\ sess_event' = NoEvent
    /\ UNCHANGED <<websocket, conns, authenticated, paired_peer, session_id, legacyRest>>

\* the while test of maintain_connection() and the test under it: connect
\* again when not authenticated or without websocket, else listen()
LegacyTop ==
    /\ maintain_pc = "top"
    /\ maintain_pc' = IF ~(enable_reconnect /\ running) THEN "returned"
                      ELSE IF ~authenticated \/ websocket = NoConn THEN "connecting"
                      ELSE "listening"
    /\ written' = <<>>
    /\ sess_event' = NoEvent
    /\ UNCHANGED <<websocket, conns, authenticated, paired_peer, session_id, running,
                   legacyRest>>

\* the task is cancelled while maintain_connection() awaits connect_with_retry()
LegacyCancelled ==
    /\ maintain_pc = "connecting"
    /\ maintain_pc' = "returned"
    /\ written' = <<>>
    /\ sess_event' = Returned("maintain_connection", "None", <<"cancelled">>)
    /\ UNCHANGED <<websocket, conns, authenticated, paired_peer, session_id, running,
                   legacyRest>>

\* listen() reads the frame raw: None is skipped, a message is handled, and
\* the ValueError of dict_to_message is logged and ends listen()
LegacyListenFrame(raw) ==
    /\ maintain_pc = "listening"
    /\ running /\ Open(websocket)
    /\ LET message == receive_message(raw) IN
       CASE message = PyNone ->
              /\ sess_event' = <<"dropped", "JSONDecodeError", raw>>
              /\ UNCHANGED <<paired_peer, maintain_pc>>
         [] message[1] = "raise" ->
              /\ sess_event' = <<"loop_error", message[2], raw>>
              /\ maintain_pc' = "top"
              /\ UNCHANGED paired_peer
         [] OTHER ->
              /\ sess_event' = IF HasHandler(message[2].type)
                               THEN <<"handler", message[2].type, raw,
                                      RegisteredHandler(message[2].type)>>
                               ELSE <<"default", message[2].type, raw>>
              /\ paired_peer' = handle_message(message[2])
              /\ UNCHANGED maintain_pc
    /\ written' = <<>>
    /\ UNCHANGED <<websocket, conns, authenticated, session_id, running, legacyRest>>

\* recv() raises in listen(): ConnectionClosed on a closed connection, which
\* is a WebSocketException and is logged as "Connection lost", another
\* WebSocketException, or CancelledError, which clears _running. listen()
\* returns in each case, and no other field is touched
LegacyListenRaised(exc) ==
    /\ maintain_pc = "listening"
    /\ exc = "ConnectionClosed" => ~Open(websocket)
    /\ running' = IF exc = "CancelledError" THEN FALSE ELSE running
    /\ maintain_pc' = "top"
    /\ sess_event' = <<"loop_error", exc, <<>>>>
    /\ written' = <<>>
    /\ UNCHANGED <<websocket, conns, authenticated, paired_peer, session_id, legacyRest>>

\* disconnect() in the finally clause of run_client(); close() under
\* wait_for(..., 2.0) leaves the connection closed, or open after a timeout
LegacyDisconnect(left) ==
    /\ maintain_pc = "returned"
    /\ maintain_pc' = "disconnected"
    /\ running' = FALSE
    /\ conns' = IF Open(websocket) THEN [conns EXCEPT ![websocket] = left] ELSE conns
    /\ websocket' = NoConn
    /\ authenticated' = FALSE
    /\ written' = <<>>
    /\ sess_event' = Returned("disconnect", "None", <<left>>)
    /\ UNCHANGED <<paired_peer, session_id, legacyRest>>

\* the relay or the network closes a connection
LegacyConnectionLost(c) ==
    /\ maintain_pc # "idle"
    /\ ConnectionLost(c)
    /\ UNCHANGED <<notSession>>

LegacyNext ==
    \/ \E opened \in BOOLEAN, raw \in EngineFrames, again \in BOOLEAN :
           LegacyConnect(opened, raw, again)
    \/ LegacyMaintain
    \/ LegacyTop
    \/ LegacyCancelled
    \/ \E raw \in EngineFrames : LegacyListenFrame(raw)
    \/ \E exc \in RecvExceptions : LegacyListenRaised(exc)
    \/ \E left \in {"open", "closed"} : LegacyDisconnect(left)
    \/ \E c \in 1..MaxConns : LegacyConnectionLost(c)

\* listen() has just returned for a lost connection, and the client is
\* running with reconnect enabled
ListenLostConnection ==
    /\ maintain_pc = "top"
    /\ sess_event = <<"loop_error", "ConnectionClosed", <<>>>>
    /\ running /\ enable_reconnect

\* C34: in the legacy client, once listen() has returned because the
\* connection was lost while the client runs with reconnect enabled,
\* maintain_connection() does not call listen() again on that connection:
\* it goes on to a new connect_with_retry().
C34_ReconnectsAfterLoss ==
    /\ [][ListenLostConnection => maintain_pc' # "listening"]_vars
    /\ ListenLostConnection ~> (maintain_pc = "connecting")

-----------------------------------------------------------------------------
(* Two clients in Auto mode paired through the relay, which relays every   *)
(* clipboard_text frame of one to the other. Both are authenticated on     *)
(* open connections, their monitor loops and receive loops run, and each   *)
(* ClipboardService has the default max_size_bytes.                        *)

Peers == {1, 2}

Other(p) == 3 - p

\* the frames a run may write before it is cut off
MaxFrames == 4

\* start_monitoring() has taken the clipboard as baseline on both peers
PairInit ==
    /\ pair_clipboard \in [Peers -> {EmptyText, TextA, TextB}]
    /\ pair_last_content = [p \in Peers |->
                               IF pair_clipboard[p] # EmptyText
                               THEN PySome(pair_clipboard[p]) ELSE PyNone]
    /\ pair_last_received = [p \in Peers |-> PyNone]
    /\ pair_inbox = [p \in Peers |-> <<>>]
    /\ pair_copied = PyNone
    /\ pair_frames = 0
    /\ pair_set_failed = FALSE

\* no pair of clients
PairIdle ==
    /\ pair_clipboard = [p \in Peers |-> EmptyText]
    /\ pair_last_content = [p \in Peers |-> PyNone]
    /\ pair_last_received = [p \in Peers |-> PyNone]
    /\ pair_inbox = [p \in Peers |-> <<>>]
    /\ pair_copied = PyNone
    /\ pair_frames = 0
    /\ pair_set_failed = FALSE

\* should_ignore_change(content) on peer p: what it returns and the
\* _last_received it leaves
pair_should_ignore_change(p, content) ==
    LET received == pair_last_received[p] IN
    IF received # PyNone /\ received[2] # EmptyText /\ content = received[2]
    THEN [ret |-> TRUE, last_received |-> PyNone]
    ELSE IF Utf8Len(content) > MAX_MESSAGE_SIZE
    THEN [ret |-> TRUE, last_received |-> received]
    ELSE [ret |-> (PySome(content) = pair_last_content[p]), last_received |-> received]

pair_monitor_round_keeps_baseline(p) ==
    LET current == IF pair_clipboard[p] # EmptyText
                   THEN PySome(pair_clipboard[p]) ELSE PyNone
    IN
    IF current = PyNone
    THEN [last_received |-> pair_last_received[p], last_content |-> pair_last_content[p],
          on_change |-> PyNone]
    ELSE LET r == pair_should_ignore_change(p, current[2]) IN
         [last_received |-> r.last_received,
          last_content |-> pair_last_content[p],
          on_change |-> IF r.ret THEN PyNone ELSE current]

\* one round of _monitor_loop on peer p: the fields it leaves and the text
\* it hands to on_change, if any
pair_monitor_round(p) ==
    LET current == IF pair_clipboard[p] # EmptyText
                   THEN PySome(pair_clipboard[p]) ELSE PyNone
    IN
    IF current = PyNone
    THEN [last_received |-> pair_last_received[p], last_content |-> pair_last_content[p],
          on_change |-> PyNone]
    ELSE LET r == pair_should_ignore_change(p, current[2]) IN
         [last_received |-> r.last_received,
          last_content |-> IF r.ret THEN pair_last_content[p] ELSE current,
          on_change |-> IF r.ret THEN PyNone ELSE current]

notPair == <<policyVars, codecVars, gateVars, sessionVars, engineVars, legacyVars>>

\* a round of the monitor loop of p; on_clipboard_change(text) is
\* send_clipboard(text, AUTO), which writes a frame unless the text is over
\* MAX_MESSAGE_SIZE, and the relay relays the frame to the other peer
PairPoll(p) ==
    LET round == pair_monitor_round(p)
        sends == round.on_change # PyNone /\ ~send_too_large(round.on_change[2])
    IN
    /\ sends => pair_frames < MaxFrames
    /\ pair_last_received' = [pair_last_received EXCEPT ![p] = round.last_received]
    /\ pair_last_content' = [pair_last_content EXCEPT ![p] = round.last_content]
    /\ pair_inbox' = IF sends
                     THEN [pair_inbox EXCEPT ![Other(p)] = Append(@, round.on_change[2])]
                     ELSE pair_inbox
    /\ pair_frames' = IF sends THEN pair_frames + 1 ELSE pair_frames
    /\ UNCHANGED <<pair_clipboard, pair_copied, pair_set_failed>>
    /\ UNCHANGED notPair

\* the receive loop of p reads a relayed frame and _on_clipboard_received
\* calls set(content), in which pyperclip.copy succeeds (ok) or raises
PairDeliver(p, ok) ==
    /\ pair_inbox[p] # <<>>
    /\ LET content == Head(pair_inbox[p]) IN
       IF ok
       THEN /\ pair_clipboard' = [pair_clipboard EXCEPT ![p] = content]
            /\ pair_last_received' = [pair_last_received EXCEPT ![p] = PySome(content)]
            /\ UNCHANGED pair_set_failed
       ELSE /\ pair_set_failed' = TRUE
            /\ UNCHANGED <<pair_clipboard, pair_last_received>>
    /\ pair_inbox' = [pair_inbox EXCEPT ![p] = Tail(@)]
    /\ UNCHANGED <<pair_last_content, pair_copied, pair_frames>>
    /\ UNCHANGED notPair

\* the one copy: the user of p puts another text on the clipboard
PairUserCopy(p, text) ==
    /\ pair_copied = PyNone
    /\ text # pair_clipboard[p]
    /\ pair_clipboard' = [pair_clipboard EXCEPT ![p] = text]
    /\ pair_copied' = <<p, text>>
    /\ UNCHANGED <<pair_last_content, pair_last_received, pair_inbox, pair_frames,
                   pair_set_failed>>
    /\ UNCHANGED notPair

PairNext ==
    \/ \E p \in Peers : PairPoll(p)
    \/ \E p \in Peers, ok \in BOOLEAN : PairDeliver(p, ok)
    \/ \E p \in Peers, text \in UserTexts : PairUserCopy(p, text)

\* no frame is on its way, and a round of either monitor loop changes
\* nothing and hands nothing to on_change
PairQuiet ==
    \A p \in Peers :
        /\ pair_inbox[p] = <<>>
        /\ pair_monitor_round(p) = [last_received |-> pair_last_received[p],
                                    last_content |-> pair_last_content[p],
                                    on_change |-> PyNone]

\* C38: two peers in Auto mode quiesce after one local copy: at most two
\* clipboard_text frames are written (the copy, and its echo by the peer
\* that received it), the run reaches a state from which no frame is on its
\* way and no round of either monitor loop sends, and in such a state both
\* clipboards hold the copied text when it is within MAX_MESSAGE_SIZE and no
\* set() failed.
C38_PairQuiesces ==
    /\ [](pair_frames <= 2)
    /\ <>[]PairQuiet
    /\ [](/\ PairQuiet
          /\ pair_copied # PyNone
          /\ ~pair_set_failed
          /\ ~send_too_large(pair_copied[2])
          => \A p \in Peers : pair_clipboard[p] = pair_copied[2])

\* the copy went to the peer, came back as an echo, and both are quiet
C38_Witness ==
    /\ pair_frames = 2
    /\ PairQuiet
    /\ pair_copied = <<1, TextB>>
    /\ \A p \in Peers : pair_clipboard[p] = TextB
    /\ ~pair_set_failed

-----------------------------------------------------------------------------
(* Specifications *)

\* the reconnection strategy under any order of calls
InitPolicy == LegacyIdle /\ PairIdle /\ PolicyInit /\ CodecIdle /\ GateIdle /\ SessionIdle /\ EngineIdle

SpecPolicy == InitPolicy /\ [][PolicyNext]_vars

\* one message encoded and decoded, or one dict from the wire decoded
InitCodec == LegacyIdle /\ PairIdle /\ CodecInit /\ PolicyIdle /\ GateIdle /\ SessionIdle /\ EngineIdle

SpecCodec == InitCodec /\ [][CodecNext]_vars

\* the clipboard service under any order of calls, user copies and monitor rounds
InitGate == LegacyIdle /\ PairIdle /\ GateInit /\ PolicyIdle /\ CodecIdle /\ SessionIdle /\ EngineIdle

SpecGate == InitGate /\ [][GateNext]_vars

\* the WebSocketService on its own
InitSession == LegacyIdle /\ PairIdle /\ SessionInit /\ PolicyIdle /\ CodecIdle /\ GateIdle /\ EngineIdle

SpecSession == InitSession /\ [][SessionNext]_vars

\* the WebSocketService with handlers registered for the peer events
InitDispatch == InitSession /\ message_handlers = {}

SpecDispatch == InitDispatch /\ [][DispatchNext]_vars

\* the WebSocketService with the steps the event loop is sure to run: a recv()
\* on a closed connection raises ConnectionClosed, the awaited heartbeat task
\* finishes, and wait_for(close(), 2.0) in disconnect() ends. That a frame
\* arrives or that an open connection closes is up to the relay and the network.
SpecSessionFair ==
    /\ SpecSession
    /\ WF_vars(SessionReceiveRaised("ConnectionClosed"))
    /\ WF_vars(SessionReceiveLoopEnd)
    /\ WF_vars(SessionDisconnectHeartbeatDone)
    /\ WF_vars(\E outcome \in CloseOutcomes, left \in {"open", "closed"} :
                   SessionDisconnectClosed(outcome, left))

\* the program: a SyncManager run by the start command
Init == LegacyIdle /\ PairIdle /\ EngineInit /\ CodecIdle

\* the run in Auto mode on an empty clipboard
InitAuto == LegacyIdle /\ PairIdle /\ EngineInit /\ CodecIdle /\ mode = AUTO /\ clipboard = EmptyText

SpecAuto == InitAuto /\ [][AutoNext]_vars

\* the run in Manual mode
InitManual == LegacyIdle /\ PairIdle /\ EngineInit /\ CodecIdle /\ mode = MANUAL

SpecManual == InitManual /\ [][ManualNext]_vars

Spec == Init /\ [][Next]_vars

\* the manager under a caller that starts it again with the other mode
InitApi ==
    /\ LegacyIdle /\ PairIdle /\ EngineInit /\ CodecIdle
    /\ ~reconnect_enabled /\ max_size_bytes = MAX_MESSAGE_SIZE /\ clipboard = EmptyText

SpecApi == InitApi /\ [][ApiNext]_vars

\* two clients in Auto mode on one session, with the steps the event loops
\* are sure to run: every round of each monitor loop, and the receive loop's
\* reading of a frame the relay has relayed
InitPair ==
    /\ PairInit /\ LegacyIdle
    /\ PolicyIdle /\ CodecIdle /\ GateIdle /\ SessionIdle /\ EngineIdle

SpecPair ==
    /\ InitPair /\ [][PairNext]_vars
    /\ \A p \in Peers : WF_vars(PairPoll(p))
    /\ \A p \in Peers : WF_vars(\E ok \in BOOLEAN : PairDeliver(p, ok))

\* the legacy client under run_client(), with the steps the event loop is
\* sure to run: the tests of maintain_connection(), a connect() that was
\* awaited, and the ConnectionClosed of a recv() on a closed connection
InitLegacy ==
    /\ LegacyIdle /\ PairIdle /\ PolicyIdle /\ CodecIdle /\ GateIdle
    /\ SessionInit /\ message_handlers = {<<CLIPBOARD_TEXT, "handler_a">>}
    /\ mode \in ClipboardSyncMode /\ reconnect_enabled \in BOOLEAN
    /\ start_pc = "idle" /\ auto_task = "none" /\ hotkey = "none" /\ stop_pc = "idle"
    /\ clip_origin = "user" /\ sent_log = <<>>

SpecLegacy ==
    /\ InitLegacy /\ [][LegacyNext]_vars
    /\ WF_vars(LegacyTop)
    /\ WF_vars(LegacyListenRaised("ConnectionClosed"))
    /\ WF_vars(\E opened \in BOOLEAN, raw \in EngineFrames, again \in BOOLEAN :
                   LegacyConnect(opened, raw, again))

=============================================================================
